---------------------------- MODULE Spec2Model ----------------------------
(***************************************************************************)
(* A model of rparif, the AirParif HTTP API client (src/src/client.rs,     *)
(* src/src/objects.rs, src/src/error.rs).                                  *)
(*                                                                         *)
(* The generic JSON tree of the json crate is a tagged record              *)
(*   [t |-> tag, v |-> payload];                                           *)
(* an object is the ordered sequence of its <<key, value>> pairs.  Errors  *)
(* are the variants of RParifError, results are Ok(v), Err(e) or Panic(m)  *)
(* (an unwrap() on None/Err aborts the call instead of returning).         *)
(* Dates are day numbers; chrono::Utc::today() is the variable today.      *)
(***************************************************************************)
EXTENDS Integers, Sequences, FiniteSets, TLC

VARIABLES
    today,      \* process-wide current date (chrono::Utc::today()), a day number
    clock,      \* the dates the last call read: [base, tickAt]
    client,     \* RParifClient: [api_key, base_url]
    pc,         \* where the caller is: "idle" before a call, "done" after it
    call,       \* the function called: [fn |-> name, input |-> arguments]
    ncalls,     \* number of endpoint methods called so far on the client
    outcome,    \* what the HTTP exchange of the call produced
    ret,        \* what the call returned: Ok(v), Err(e) or Panic(m)
    trace,      \* what the call did, in order: GET requests, decoders run;
                \* for an Episode, the entries added to it
    alert,      \* an Episode: [date, detail, pollutants]
    iter,       \* a PollutantEpisodeIter: [episode, i]
    last        \* history: how the call before this one ended
                \* ("None", "Ok" or "Err")

\* the objects of objects.rs
objs == <<alert, iter, last>>

vars == <<today, clock, client, pc, call, ncalls, outcome, ret, trace,
          alert, iter, last>>

-----------------------------------------------------------------------------
(* Bounds of the model *)

\* longest JSON array given to a decoder
MaxLen == 2
\* most members of a JSON object given to an accessor
MaxKeys == 2
\* how many times the current date may advance during a run
MaxTicks == 1
\* how many endpoint methods are called in a row on one client
MaxCalls == 2
\* most entries added to an Episode
MaxAdds == 2
\* calls of next made after the end of an iteration
MaxPast == 2

-----------------------------------------------------------------------------
(* Generic sequence helpers *)

Range(s) == {s[n] : n \in 1..Len(s)}

\* all sequences over S of length 0..n
SeqsUpTo(S, n) == UNION {[1..m -> S] : m \in 0..n}

\* sequences without a repeated element
Injective(s) == \A a, b \in 1..Len(s) : a # b => s[a] # s[b]

RECURSIVE Pow10(_)
Pow10(n) == IF n <= 0 THEN 1 ELSE 10 * Pow10(n - 1)

-----------------------------------------------------------------------------
(* json::JsonValue *)

JNull == [t |-> "null"]
JBool(b) == [t |-> "bool", v |-> b]
\* a number is sign * mantissa * 10^exponent; v = <<signed mantissa, exponent>>
JNum(m, e) == [t |-> "num", v |-> <<m, e>>]
JInt(n) == JNum(n, 0)
JStr(s) == [t |-> "str", v |-> s]
JArr(s) == [t |-> "arr", v |-> s]
\* members in source order, keys distinct
JObj(kvs) == [t |-> "obj", v |-> kvs]

is_number(j) == j.t = "num"
is_string(j) == j.t = "str"

\* JsonValue::has_key: false for everything that is not an object
has_key(j, key) == j.t = "obj" /\ \E n \in 1..Len(j.v) : j.v[n][1] = key

\* JsonValue's Index<&str>: the member, or null when absent or not an object
Member(j, key) ==
    IF has_key(j, key)
    THEN j.v[CHOOSE n \in 1..Len(j.v) : j.v[n][1] = key][2]
    ELSE JNull

\* JsonValue::entries: the members of an object in source order, nothing otherwise
entries(j) == IF j.t = "obj" THEN j.v ELSE <<>>

\* Option<T>
None == [some |-> FALSE]
Some(x) == [some |-> TRUE, v |-> x]

\* JsonValue::as_str
as_str(j) == IF j.t = "str" THEN Some(j.v) ELSE None

\* largest mantissa m for which m * 10^e still fits u32 (u32::MAX = 4294967295)
U32MaxDiv10 == 429496729
FitsU32(m, e) == m = 0 \/ e <= 0 \/ (e <= 9 /\ m <= U32MaxDiv10 \div Pow10(e - 1))

\* JsonValue::as_u32: None for a non-number, a negative number and a number
\* above u32::MAX; a fractional number is truncated
as_u32(j) ==
    IF j.t # "num" THEN None
    ELSE LET m == j.v[1]
             e == j.v[2]
         IN  IF m < 0 THEN None
             ELSE IF e <= 0 THEN Some(m \div Pow10(0 - e))
             ELSE IF FitsU32(m, e) THEN Some(m * Pow10(e))
             ELSE None

\* text of a number: 35, -1, 3.7, 5e10
NumText(m, e) ==
    IF e = 0 THEN ToString(m)
    ELSE IF e > 0 THEN ToString(m) \o "e" \o ToString(e)
    ELSE LET a == IF m < 0 THEN 0 - m ELSE m
             p == Pow10(0 - e)
             frac == a % p
             pad == IF (0 - e) = 2 /\ frac < 10 THEN "0" ELSE ""
         IN  (IF m < 0 THEN "-" ELSE "") \o ToString(a \div p) \o "."
                 \o pad \o ToString(frac)

Quote(s) == "\"" \o s \o "\""

RECURSIVE dump(_), DumpItems(_), DumpMembers(_)
\* JsonValue::dump: the compact serialization
dump(j) ==
    CASE j.t = "null" -> "null"
      [] j.t = "bool" -> IF j.v THEN "true" ELSE "false"
      [] j.t = "num"  -> NumText(j.v[1], j.v[2])
      [] j.t = "str"  -> Quote(j.v)
      [] j.t = "arr"  -> "[" \o DumpItems(j.v) \o "]"
      [] j.t = "obj"  -> "{" \o DumpMembers(j.v) \o "}"
DumpItems(s) ==
    IF s = <<>> THEN ""
    ELSE dump(Head(s)) \o (IF Len(s) > 1 THEN "," ELSE "") \o DumpItems(Tail(s))
DumpMembers(s) ==
    IF s = <<>> THEN ""
    ELSE Quote(Head(s)[1]) \o ":" \o dump(Head(s)[2])
             \o (IF Len(s) > 1 THEN "," ELSE "") \o DumpMembers(Tail(s))

\* JsonValue's Display (to_string): a string is written raw, the rest is dumped
to_string(j) == IF j.t = "str" THEN j.v ELSE dump(j)

-----------------------------------------------------------------------------
(* Results and RParifError *)

Ok(x) == [tag |-> "Ok", v |-> x]
Err(e) == [tag |-> "Err", v |-> e]
\* abnormal termination of the call (a failed unwrap)
Panic(m) == [tag |-> "Panic", v |-> m]
NoRet == [tag |-> "none"]

RequestError(url) == [t |-> "RequestError", url |-> url]
JsonError(text) == [t |-> "JsonError", text |-> text]
DateParseError(text) == [t |-> "DateParseError", text |-> text]
UnkownEnumValue(token) == [t |-> "UnkownEnumValue", token |-> token]
WrongJsonType(expected, json) ==
    [t |-> "WrongJsonType", expected |-> expected, json |-> json]
UnexpectedDate(value) == [t |-> "UnexpectedDate", value |-> value]
CallError(url, body, status) ==
    [t |-> "CallError", url |-> url, body |-> body, status |-> status]
MissingJsonKey(key, json) ==
    [t |-> "MissingJsonKey", key |-> key, json |-> json]

IsErr(r, variant) == r.tag = "Err" /\ r.v.t = variant

-----------------------------------------------------------------------------
(* The current date as a call reads it *)

\* the date advances by one day just before the call's tickAt-th read
\* (tickAt = 0: not during this call)
Clock(base, tickAt) == [base |-> base, tickAt |-> tickAt]
Read(clk, n) ==
    IF clk.tickAt # 0 /\ n >= clk.tickAt THEN clk.base + 1 ELSE clk.base
After(clk) == IF clk.tickAt # 0 THEN clk.base + 1 ELSE clk.base

-----------------------------------------------------------------------------
(* Relative-date resolver: client.rs, convert_json_to_date and             *)
(* convert_string_to_date.  date is the value chrono::Utc::today() returns *)
(* at the top of the function.                                             *)

\* JsonValue == &str: true only for a JSON string with that content
JsonEqStr(value, s) == value.t = "str" /\ value.v = s

\* mutant: the failure payload written with to_string instead of dump
convert_json_to_date_raw(value, date) ==
    IF JsonEqStr(value, "hier") THEN Ok(date - 1)
    ELSE IF JsonEqStr(value, "demain") THEN Ok(date + 1)
    ELSE IF JsonEqStr(value, "jour") THEN Ok(date)
    ELSE Err(UnexpectedDate(to_string(value)))

convert_json_to_date(value, date) ==
    IF JsonEqStr(value, "hier") THEN Ok(date - 1)
    ELSE IF JsonEqStr(value, "demain") THEN Ok(date + 1)
    ELSE IF JsonEqStr(value, "jour") THEN Ok(date)
    ELSE Err(UnexpectedDate(dump(value)))

\* mutant: the tokens are compared without regard to case
convert_string_to_date_nocase(value, date) ==
    IF value \in {"hier", "Hier"} THEN Ok(date - 1)
    ELSE IF value \in {"demain", "Demain"} THEN Ok(date + 1)
    ELSE IF value \in {"jour", "Jour"} THEN Ok(date)
    ELSE Err(UnexpectedDate(value))

convert_string_to_date(value, date) ==
    IF value = "hier" THEN Ok(date - 1)
    ELSE IF value = "demain" THEN Ok(date + 1)
    ELSE IF value = "jour" THEN Ok(date)
    ELSE Err(UnexpectedDate(value))

-----------------------------------------------------------------------------
(* JSON accessors: client.rs, get_number_value and get_string_value *)

get_number_value(key, json) ==
    IF ~has_key(json, key) THEN Err(MissingJsonKey(key, dump(json)))
    ELSE IF ~is_number(Member(json, key))
    THEN Err(WrongJsonType("number", dump(Member(json, key))))
    ELSE LET n == as_u32(Member(json, key))
         IN  IF n.some THEN Ok(n.v)
             ELSE Panic("unwrap on None")

\* mutant: the wrong-type error dumps the object instead of the member
get_string_value_whole(key, json) ==
    IF ~has_key(json, key) THEN Err(MissingJsonKey(key, dump(json)))
    ELSE IF ~is_string(Member(json, key))
    THEN Err(WrongJsonType("string", dump(json)))
    ELSE Ok(as_str(Member(json, key)).v)

get_string_value(key, json) ==
    IF ~has_key(json, key) THEN Err(MissingJsonKey(key, dump(json)))
    ELSE IF ~is_string(Member(json, key))
    THEN Err(WrongJsonType("string", dump(Member(json, key))))
    ELSE Ok(as_str(Member(json, key)).v)

-----------------------------------------------------------------------------
(* Domain model: objects.rs *)

\* Index::new
Index(date, url, pollutants, index, insee) ==
    [date |-> date, url |-> url, pollutants |-> pollutants, index |-> index,
     insee |-> insee]

\* Episode::new
Episode_new(date, detail) == [date |-> date, detail |-> detail, pollutants |-> <<>>]

\* mutant: the entry is put in front of the entries added before it
Episode_add_front(ep, pollutant, kind, level, criteria) ==
    [ep EXCEPT !.pollutants =
        <<[pollutant |-> pollutant, kind |-> kind, level |-> level,
           criteria |-> criteria]>> \o @]

\* Episode::add
Episode_add(ep, pollutant, kind, level, criteria) ==
    [ep EXCEPT !.pollutants =
        Append(@, [pollutant |-> pollutant, kind |-> kind, level |-> level,
                   criteria |-> criteria])]

\* mutant: the empty string is read as the level Normal
Level_from_str_default(s) ==
    IF s = "info" THEN Ok("Info")
    ELSE IF s = "alerte" THEN Ok("Alert")
    ELSE IF s = "normal" \/ s = "" THEN Ok("Normal")
    ELSE Err(UnkownEnumValue(s))

\* Episode::into_iter
into_iter(ep) == [episode |-> ep, i |-> 0]

\* mutant: the cursor goes back to the start at the end
next_wrap(it) ==
    IF it.i < Len(it.episode.pollutants)
    THEN [ret |-> Some(it.episode.pollutants[it.i + 1]),
          iter |-> [it EXCEPT !.i = it.i + 1]]
    ELSE [ret |-> None, iter |-> [it EXCEPT !.i = 0]]

\* PollutantEpisodeIter::next: what it returns and the iterator after it
next(it) ==
    IF it.i < Len(it.episode.pollutants)
    THEN [ret |-> Some(it.episode.pollutants[it.i + 1]),
          iter |-> [it EXCEPT !.i = it.i + 1]]
    ELSE [ret |-> None, iter |-> it]

\* Level::from_str
Level_from_str(s) ==
    IF s = "info" THEN Ok("Info")
    ELSE IF s = "alerte" THEN Ok("Alert")
    ELSE IF s = "normal" THEN Ok("Normal")
    ELSE Err(UnkownEnumValue(s))

\* Type::from_str
Type_from_str(s) ==
    IF s = "prevu" THEN Ok("Forecast")
    ELSE IF s = "constate" THEN Ok("Observed")
    ELSE Err(UnkownEnumValue(s))

\* Criteria::from_str
Criteria_from_str(s) ==
    IF s = "km" THEN Ok("Area")
    ELSE IF s = "pop" THEN Ok("Population")
    ELSE Err(UnkownEnumValue(s))

-----------------------------------------------------------------------------
(* NaiveDate::parse_from_str(date, "%d/%m/%Y") *)

\* the day, month and year fields the format reads off a text; <<>> when
\* the text does not have the shape dd/mm/yyyy
DateFields(text) ==
    CASE text = "31/12/2019" -> <<31, 12, 2019>>
      [] text = "01/01/2020" -> <<1, 1, 2020>>
      [] text = "09/08/2012" -> <<9, 8, 2012>>
      [] text = "29/02/2020" -> <<29, 2, 2020>>
      [] text = "31/02/2019" -> <<31, 2, 2019>>
      [] text = "01/13/2019" -> <<1, 13, 2019>>
      [] OTHER -> <<>>

IsLeap(y) == (y % 4 = 0 /\ y % 100 # 0) \/ y % 400 = 0

DaysInMonth(m, y) ==
    IF m = 2 THEN (IF IsLeap(y) THEN 29 ELSE 28)
    ELSE IF m \in {4, 6, 9, 11} THEN 30 ELSE 31

\* days since 1970-01-01 of a civil date
DaysFromCivil(y, m, d) ==
    LET yy == IF m <= 2 THEN y - 1 ELSE y
        era == yy \div 400
        yoe == yy - era * 400
        mp == (m + 9) % 12
        doy == (153 * mp + 2) \div 5 + d - 1
        doe == yoe * 365 + yoe \div 4 - yoe \div 100 + doy
    IN  era * 146097 + doe - 719468

parse_from_str(text) ==
    LET f == DateFields(text)
    IN  IF f = <<>> THEN Err(DateParseError(text))
        ELSE IF f[2] < 1 \/ f[2] > 12 \/ f[1] < 1 \/ f[1] > DaysInMonth(f[2], f[3])
        THEN Err(DateParseError(text))
        ELSE Ok(DaysFromCivil(f[3], f[2], f[1]))

-----------------------------------------------------------------------------
(* Decoder A: client.rs, index_to_index.  The n-th element's date is       *)
(* resolved against the n-th read of the current date.                     *)

RECURSIVE IndexElements(_, _, _, _)
RECURSIVE IndexElements_index_first(_, _, _, _)
RECURSIVE IndexElements_url(_, _, _, _)
RECURSIVE IndexElements_bare(_, _, _, _)
\* mutant: a Measurement without the name "global"
IndexElements_bare(data, n, clk, result) ==
    IF n > Len(data) THEN Ok(result)
    ELSE LET value == data[n]
             date == convert_json_to_date(Member(value, "date"), Read(clk, n))
             url == IF has_key(value, "url_carte")
                    THEN Some(to_string(Member(value, "url_carte")))
                    ELSE None
             index == get_number_value("indice", value)
         IN  IF date.tag # "Ok" THEN date
             ELSE IF index.tag # "Ok" THEN index
             ELSE IndexElements_bare(data, n + 1, clk,
                     Append(result, Index(date.v, url, <<>>, index.v, None)))

\* mutant: the map URL is read whether or not the key is there
IndexElements_url(data, n, clk, result) ==
    IF n > Len(data) THEN Ok(result)
    ELSE LET value == data[n]
             date == convert_json_to_date(Member(value, "date"), Read(clk, n))
             url == Some(to_string(Member(value, "url_carte")))
             index == get_number_value("indice", value)
         IN  IF date.tag # "Ok" THEN date
             ELSE IF index.tag # "Ok" THEN index
             ELSE IndexElements_url(data, n + 1, clk,
                     Append(result,
                            Index(date.v, url, <<"global">>, index.v, None)))

\* mutant: the indice of an element is read before its date
IndexElements_index_first(data, n, clk, result) ==
    IF n > Len(data) THEN Ok(result)
    ELSE LET value == data[n]
             date == convert_json_to_date(Member(value, "date"), Read(clk, n))
             url == IF has_key(value, "url_carte")
                    THEN Some(to_string(Member(value, "url_carte")))
                    ELSE None
             index == get_number_value("indice", value)
         IN  IF index.tag # "Ok" THEN index
             ELSE IF date.tag # "Ok" THEN date
             ELSE IndexElements_index_first(data, n + 1, clk,
                     Append(result,
                            Index(date.v, url, <<"global">>, index.v, None)))

IndexElements(data, n, clk, result) ==
    IF n > Len(data) THEN Ok(result)
    ELSE LET value == data[n]
             date == convert_json_to_date(Member(value, "date"), Read(clk, n))
             url == IF has_key(value, "url_carte")
                    THEN Some(to_string(Member(value, "url_carte")))
                    ELSE None
             index == get_number_value("indice", value)
         IN  IF date.tag # "Ok" THEN date
             ELSE IF index.tag # "Ok" THEN index
             ELSE IndexElements(data, n + 1, clk,
                     Append(result,
                            Index(date.v, url, <<"global">>, index.v, None)))

\* mutant: the failure payload written with to_string instead of dump
index_to_index_display(json, clk) ==
    IF json.t = "arr" THEN IndexElements(json.v, 1, clk, <<>>)
    ELSE Err(WrongJsonType("array", to_string(json)))

index_to_index(json, clk) ==
    IF json.t = "arr" THEN IndexElements(json.v, 1, clk, <<>>)
    ELSE Err(WrongJsonType("array", dump(json)))

-----------------------------------------------------------------------------
(* Decoder B: client.rs, index_day_to_index *)

\* Result::ok().map(|v| v.to_string())
OkToOption(r) == IF r.tag = "Ok" THEN Some(r.v) ELSE None

RECURSIVE IndexDayEntries(_, _, _, _)
RECURSIVE IndexDayEntries_front(_, _, _, _)
\* mutant: a Measurement is put in front of the ones decoded before it
IndexDayEntries_front(es, n, date, result) ==
    IF n > Len(es) THEN Ok(result)
    ELSE LET key == es[n][1]
             value == es[n][2]
             index == get_number_value("indice", value)
             url == OkToOption(get_string_value("url_carte", value))
         IN  IF key = "date" THEN IndexDayEntries_front(es, n + 1, date, result)
             ELSE IF index.tag # "Ok" THEN index
             ELSE IndexDayEntries_front(es, n + 1, date,
                     <<Index(date, url, <<key>>, index.v, None)>> \o result)

RECURSIVE IndexDayEntries_url(_, _, _, _)
\* mutant: a map URL that cannot be read fails the decode
IndexDayEntries_url(es, n, date, result) ==
    IF n > Len(es) THEN Ok(result)
    ELSE LET key == es[n][1]
             value == es[n][2]
             index == get_number_value("indice", value)
             url == get_string_value("url_carte", value)
         IN  IF key = "date" THEN IndexDayEntries_url(es, n + 1, date, result)
             ELSE IF index.tag # "Ok" THEN index
             ELSE IF url.tag # "Ok" THEN url
             ELSE IndexDayEntries_url(es, n + 1, date,
                     Append(result, Index(date, Some(url.v), <<key>>, index.v, None)))

IndexDayEntries(es, n, date, result) ==
    IF n > Len(es) THEN Ok(result)
    ELSE LET key == es[n][1]
             value == es[n][2]
             index == get_number_value("indice", value)
             url == OkToOption(get_string_value("url_carte", value))
         IN  IF key = "date" THEN IndexDayEntries(es, n + 1, date, result)
             ELSE IF index.tag # "Ok" THEN index
             ELSE IndexDayEntries(es, n + 1, date,
                     Append(result, Index(date, url, <<key>>, index.v, None)))

\* mutant: the pollutant members are read before the date is
index_day_to_index_late(json) ==
    LET text == get_string_value("date", json)
        date == parse_from_str(text.v)
        members == IndexDayEntries(entries(json), 1, 0, <<>>)
    IN  IF members.tag # "Ok" THEN members
        ELSE IF text.tag # "Ok" THEN text
        ELSE IF date.tag # "Ok" THEN date
        ELSE IndexDayEntries(entries(json), 1, date.v, <<>>)

index_day_to_index(json) ==
    LET text == get_string_value("date", json)
    IN  IF text.tag # "Ok" THEN text
        ELSE LET date == parse_from_str(text.v)
             IN  IF date.tag # "Ok" THEN date
                 ELSE IndexDayEntries(entries(json), 1, date.v, <<>>)

-----------------------------------------------------------------------------
(* Decoder C: client.rs, idxville_to_index.  Every key other than ninsee   *)
(* is resolved by convert_string_to_date, which reads the current date:    *)
(* rd counts the reads made so far.                                        *)

RECURSIVE UnwrapStrs(_, _, _)
\* p.into_iter().map(|v| v.as_str().unwrap().to_string()).collect()
UnwrapStrs(p, n, out) ==
    IF n > Len(p) THEN Ok(out)
    ELSE IF ~as_str(p[n]).some THEN Panic("unwrap on None")
    ELSE UnwrapStrs(p, n + 1, Append(out, as_str(p[n]).v))

RECURSIVE IdxvilleEntries(_, _, _, _, _, _)
RECURSIVE IdxvilleEntries_global(_, _, _, _, _, _)
\* mutant: a sub-object without a polluants array is given "global"
IdxvilleEntries_global(es, n, insee, rd, clk, result) ==
    IF n > Len(es) THEN Ok([list |-> result, rd |-> rd])
    ELSE LET key == es[n][1]
             value == es[n][2]
             date == convert_string_to_date(key, Read(clk, rd + 1))
             index == get_number_value("indice", value)
             pollutants == IF Member(value, "polluants").t = "arr"
                           THEN UnwrapStrs(Member(value, "polluants").v, 1, <<>>)
                           ELSE Ok(<<"global">>)
         IN  IF key = "ninsee"
             THEN IdxvilleEntries_global(es, n + 1, insee, rd, clk, result)
             ELSE IF date.tag # "Ok" THEN date
             ELSE IF index.tag # "Ok" THEN index
             ELSE IF pollutants.tag # "Ok" THEN pollutants
             ELSE IdxvilleEntries_global(es, n + 1, insee, rd + 1, clk,
                     Append(result,
                            Index(date.v, None, pollutants.v, index.v,
                                  Some(insee))))

RECURSIVE IdxvilleEntries_index_first(_, _, _, _, _, _)
\* mutant: the indice is read before the key is resolved
IdxvilleEntries_index_first(es, n, insee, rd, clk, result) ==
    IF n > Len(es) THEN Ok([list |-> result, rd |-> rd])
    ELSE LET key == es[n][1]
             value == es[n][2]
             date == convert_string_to_date(key, Read(clk, rd + 1))
             index == get_number_value("indice", value)
             pollutants == IF Member(value, "polluants").t = "arr"
                           THEN UnwrapStrs(Member(value, "polluants").v, 1, <<>>)
                           ELSE Ok(<<>>)
         IN  IF key = "ninsee"
             THEN IdxvilleEntries_index_first(es, n + 1, insee, rd, clk, result)
             ELSE IF index.tag # "Ok" THEN index
             ELSE IF date.tag # "Ok" THEN date
             ELSE IF pollutants.tag # "Ok" THEN pollutants
             ELSE IdxvilleEntries_index_first(es, n + 1, insee, rd + 1, clk,
                     Append(result,
                            Index(date.v, None, pollutants.v, index.v,
                                  Some(insee))))

IdxvilleEntries(es, n, insee, rd, clk, result) ==
    IF n > Len(es) THEN Ok([list |-> result, rd |-> rd])
    ELSE LET key == es[n][1]
             value == es[n][2]
             date == convert_string_to_date(key, Read(clk, rd + 1))
             index == get_number_value("indice", value)
             pollutants == IF Member(value, "polluants").t = "arr"
                           THEN UnwrapStrs(Member(value, "polluants").v, 1, <<>>)
                           ELSE Ok(<<>>)
         IN  IF key = "ninsee"
             THEN IdxvilleEntries(es, n + 1, insee, rd, clk, result)
             ELSE IF date.tag # "Ok" THEN date
             ELSE IF index.tag # "Ok" THEN index
             ELSE IF pollutants.tag # "Ok" THEN pollutants
             ELSE IdxvilleEntries(es, n + 1, insee, rd + 1, clk,
                     Append(result,
                            Index(date.v, None, pollutants.v, index.v,
                                  Some(insee))))

RECURSIVE IdxvilleCities(_, _, _, _, _)
IdxvilleCities(data, n, rd, clk, result) ==
    IF n > Len(data) THEN Ok(result)
    ELSE LET i == data[n]
             insee == get_string_value("ninsee", i)
         IN  IF insee.tag # "Ok" THEN insee
             ELSE LET r == IdxvilleEntries(entries(i), 1, insee.v, rd, clk, result)
                  IN  IF r.tag # "Ok" THEN r
                      ELSE IdxvilleCities(data, n + 1, r.v.rd, clk, r.v.list)

idxville_to_index(json, clk) ==
    IF json.t = "arr" THEN IdxvilleCities(json.v, 1, 0, clk, <<>>)
    ELSE Err(WrongJsonType("array", dump(json)))

-----------------------------------------------------------------------------
(* Decoder D: client.rs, episode_to_episode.  The n-th element's date is   *)
(* resolved against the n-th read of the current date.                     *)

RECURSIVE UnwrapCriteria(_, _, _)
\* v.into_iter().map(|v| v.as_str().unwrap().parse().unwrap()).collect()
UnwrapCriteria(p, n, out) ==
    IF n > Len(p) THEN Ok(out)
    ELSE IF ~as_str(p[n]).some THEN Panic("unwrap on None")
    ELSE IF Criteria_from_str(as_str(p[n]).v).tag # "Ok" THEN Panic("unwrap on Err")
    ELSE UnwrapCriteria(p, n + 1, Append(out, Criteria_from_str(as_str(p[n]).v).v))

\* self.get_string_value("type", value)?.parse()?
ParseType(value) ==
    LET s == get_string_value("type", value)
    IN  IF s.tag # "Ok" THEN s ELSE Type_from_str(s.v)

\* self.get_string_value("niveau", value)?.parse()?
ParseLevel(value) ==
    LET s == get_string_value("niveau", value)
    IN  IF s.tag # "Ok" THEN s ELSE Level_from_str(s.v)

RECURSIVE EpisodeEntries(_, _, _)
RECURSIVE EpisodeEntries_level_first(_, _, _)
\* mutant: niveau is read before type
EpisodeEntries_level_first(es, n, episode) ==
    IF n > Len(es) THEN Ok(episode)
    ELSE LET key == es[n][1]
             value == es[n][2]
             kind == ParseType(value)
             level == ParseLevel(value)
             criteria == IF Member(value, "criteres").t = "arr"
                         THEN UnwrapCriteria(Member(value, "criteres").v, 1, <<>>)
                         ELSE Ok(<<>>)
         IN  IF key = "date" \/ key = "detail"
             THEN EpisodeEntries_level_first(es, n + 1, episode)
             ELSE IF level.tag # "Ok" THEN level
             ELSE IF kind.tag # "Ok" THEN kind
             ELSE IF criteria.tag # "Ok" THEN criteria
             ELSE EpisodeEntries_level_first(es, n + 1,
                     Episode_add(episode, key, kind.v, level.v, criteria.v))

EpisodeEntries(es, n, episode) ==
    IF n > Len(es) THEN Ok(episode)
    ELSE LET key == es[n][1]
             value == es[n][2]
             kind == ParseType(value)
             level == ParseLevel(value)
             criteria == IF Member(value, "criteres").t = "arr"
                         THEN UnwrapCriteria(Member(value, "criteres").v, 1, <<>>)
                         ELSE Ok(<<>>)
         IN  IF key = "date" \/ key = "detail"
             THEN EpisodeEntries(es, n + 1, episode)
             ELSE IF kind.tag # "Ok" THEN kind
             ELSE IF level.tag # "Ok" THEN level
             ELSE IF criteria.tag # "Ok" THEN criteria
             ELSE EpisodeEntries(es, n + 1,
                     Episode_add(episode, key, kind.v, level.v, criteria.v))

RECURSIVE EpisodeElements(_, _, _, _)
RECURSIVE EpisodeElements_detail(_, _, _, _)
\* mutant: an empty detail is kept
EpisodeElements_detail(data, n, clk, result) ==
    IF n > Len(data) THEN Ok(result)
    ELSE LET j == data[n]
             date == convert_json_to_date(Member(j, "date"), Read(clk, n))
             text == as_str(Member(j, "detail"))
             detail == IF text.some THEN Some(text.v) ELSE None
         IN  IF date.tag # "Ok" THEN date
             ELSE LET episode == EpisodeEntries(entries(j), 1,
                                                Episode_new(date.v, detail))
                  IN  IF episode.tag # "Ok" THEN episode
                      ELSE EpisodeElements_detail(data, n + 1, clk,
                                                  Append(result, episode.v))

EpisodeElements(data, n, clk, result) ==
    IF n > Len(data) THEN Ok(result)
    ELSE LET j == data[n]
             date == convert_json_to_date(Member(j, "date"), Read(clk, n))
             text == as_str(Member(j, "detail"))
             detail == IF text.some /\ text.v # "" THEN Some(text.v) ELSE None
         IN  IF date.tag # "Ok" THEN date
             ELSE LET episode == EpisodeEntries(entries(j), 1,
                                                Episode_new(date.v, detail))
                  IN  IF episode.tag # "Ok" THEN episode
                      ELSE EpisodeElements(data, n + 1, clk,
                                           Append(result, episode.v))

episode_to_episode(json, clk) ==
    IF json.t = "arr" THEN EpisodeElements(json.v, 1, clk, <<>>)
    ELSE Err(WrongJsonType("array", dump(json)))

-----------------------------------------------------------------------------
(* Inputs of the helper functions *)

RelativeDays == {"hier", "jour", "demain"}
DateStrings == RelativeDays \cup {"Hier", "", "wrong string", "31/12/2019"}

\* one value of every JSON scalar kind; numbers: an index, a negative, a
\* fraction (3.7) and one above u32::MAX (5e10)
ScalarValues ==
    {JNull, JBool(TRUE), JInt(35), JInt(0 - 1), JNum(37, 0 - 1), JNum(5, 10),
     JStr("hier"), JStr("a")}

DateValues ==
    ScalarValues \cup {JStr(s) : s \in DateStrings}
        \cup {JArr(<<JStr("hier")>>), JArr(<<>>), JObj(<<>>),
              JObj(<< <<"date", JStr("jour")>> >>)}

AccessKeys == {"indice", "url_carte", "date"}

\* every object of at most MaxKeys members over AccessKeys and ScalarValues
AccessObjects ==
    {JObj(kvs) : kvs \in
        {s \in SeqsUpTo(AccessKeys \X ScalarValues, MaxKeys) :
            Injective([n \in 1..Len(s) |-> s[n][1]])}}

AccessInputs ==
    (AccessKeys \X (AccessObjects \cup {JNull, JStr("indice"), JInt(35),
                                        JArr(<<JInt(35)>>)}))

\* the tokens of the three enumerations, and strings that are none: other
\* letter case, white space around a token, the empty string
EnumStrings ==
    {"info", "alerte", "normal", "prevu", "constate", "km", "pop",
     "Info", "ALERTE", "Prevu", "KM", " info", "pop ", "", "x"}

EnumParsers == {"Level::from_str", "Type::from_str", "Criteria::from_str"}

UnitCalls ==
    {[fn |-> "convert_json_to_date", input |-> v] : v \in DateValues}
        \cup {[fn |-> "convert_string_to_date", input |-> s] : s \in DateStrings}
        \cup {[fn |-> "get_number_value", input |-> x] : x \in AccessInputs}
        \cup {[fn |-> "get_string_value", input |-> x] : x \in AccessInputs}
        \cup {[fn |-> f, input |-> x] : f \in EnumParsers, x \in EnumStrings}

NoCall == [fn |-> "none"]
\* no Episode built, no iterator made
NoEpisode == [date |-> 0, detail |-> None, pollutants |-> <<>>]
NoIter == [episode |-> NoEpisode, i |-> 0]
NoOutcome == [kind |-> "none"]
NewClient == [api_key |-> "dummy", base_url |-> "http://localhost:5000"]

-----------------------------------------------------------------------------
(* SpecUnit: one application of a helper function to a drawn input *)

InitUnit ==
    /\ today = 0
    /\ clock = Clock(0, 0)
    /\ client = NewClient
    /\ pc = "idle"
    /\ call \in UnitCalls
    /\ ncalls = 0
    /\ outcome = NoOutcome
    /\ ret = NoRet
    /\ trace = <<>>
    /\ alert = NoEpisode
    /\ iter = NoIter
    /\ last = "None"

\* midnight passes
Tick ==
    /\ pc = "idle"
    /\ today < MaxTicks
    /\ today' = today + 1
    /\ UNCHANGED <<clock, client, pc, call, ncalls, outcome, ret, trace, objs>>

Returns(r) ==
    /\ pc = "idle"
    /\ pc' = "done"
    /\ clock' = Clock(today, 0)
    /\ ret' = r
    /\ UNCHANGED <<today, client, call, ncalls, outcome, trace, objs>>

ConvertJsonToDate ==
    /\ call.fn = "convert_json_to_date"
    /\ Returns(convert_json_to_date(call.input, today))

ConvertStringToDate ==
    /\ call.fn = "convert_string_to_date"
    /\ Returns(convert_string_to_date(call.input, today))

GetNumberValue ==
    /\ call.fn = "get_number_value"
    /\ Returns(get_number_value(call.input[1], call.input[2]))

GetStringValue ==
    /\ call.fn = "get_string_value"
    /\ Returns(get_string_value(call.input[1], call.input[2]))

LevelFromStr ==
    /\ call.fn = "Level::from_str"
    /\ Returns(Level_from_str(call.input))

TypeFromStr ==
    /\ call.fn = "Type::from_str"
    /\ Returns(Type_from_str(call.input))

CriteriaFromStr ==
    /\ call.fn = "Criteria::from_str"
    /\ Returns(Criteria_from_str(call.input))

NextUnit ==
    \/ Tick
    \/ ConvertJsonToDate
    \/ ConvertStringToDate
    \/ GetNumberValue
    \/ GetStringValue
    \/ LevelFromStr
    \/ TypeFromStr
    \/ CriteriaFromStr

SpecUnit == InitUnit /\ [][NextUnit]_vars

-----------------------------------------------------------------------------
(* HTTP response bodies *)

Obj1(k1, v1) == JObj(<< <<k1, v1>> >>)
Obj2(k1, v1, k2, v2) == JObj(<< <<k1, v1>>, <<k2, v2>> >>)
Obj3(k1, v1, k2, v2, k3, v3) == JObj(<< <<k1, v1>>, <<k2, v2>>, <<k3, v3>> >>)
StrArr(ss) == JArr([n \in 1..Len(ss) |-> JStr(ss[n])])

\* the JSON documents the service answers with: the four response shapes,
\* well formed and malformed, and documents of no shape at all
BodyValues ==
    {JNull, JInt(35), JStr("jour"), JArr(<<>>), Obj1("data", JInt(0)),
     \* indice
     JArr(<<Obj3("date", JStr("jour"), "indice", JInt(35), "url_carte", JStr("a"))>>),
     JArr(<<Obj2("date", JStr("hier"), "indice", JInt(35)),
            Obj2("date", JStr("demain"), "indice", JInt(70))>>),
     JArr(<<Obj1("date", JStr("jour"))>>),
     JArr(<<Obj2("date", JStr("jour"), "indice", JInt(0 - 1))>>),
     JArr(<<Obj2("date", JStr("x"), "indice", JInt(35))>>),
     \* indiceJour
     Obj3("date", JStr("31/12/2019"),
          "global", Obj2("indice", JInt(35), "url_carte", JStr("a")),
          "o3", Obj1("indice", JInt(40))),
     Obj2("date", JStr("31/02/2019"), "global", Obj1("indice", JInt(35))),
     \* idxville
     JArr(<<Obj3("ninsee", JStr("75101"),
                 "hier", Obj2("indice", JInt(25), "polluants", StrArr(<<"no2", "pm10">>)),
                 "jour", Obj1("indice", JInt(50)))>>),
     JArr(<<Obj2("ninsee", JStr("75101"),
                 "jour", Obj2("indice", JInt(50), "polluants", JArr(<<JInt(1)>>)))>>),
     \* episode
     JArr(<<Obj3("date", JStr("hier"), "detail", JStr(""),
                 "o3", Obj3("type", JStr("constate"), "niveau", JStr("info"),
                            "criteres", StrArr(<<"km", "pop">>)))>>),
     JArr(<<Obj3("date", JStr("jour"), "detail", JStr("text"),
                 "o3", Obj2("type", JStr("constate"), "niveau", JStr("bad")))>>),
     JArr(<<Obj2("date", JStr("demain"),
                 "o3", Obj3("type", JStr("prevu"), "niveau", JStr("alerte"),
                            "criteres", StrArr(<<"x">>)))>>)}

\* the texts json::parse reads a document from: its compact serialization,
\* and the same with white space around it
JsonTexts ==
    {<<dump(j), j>> : j \in BodyValues}
        \cup {<<" " \o dump(j) \o " ", j>> : j \in BodyValues}

NotJsonTexts == {"this is not a json", "", "{\"data\":"}

BodyTexts == {p[1] : p \in JsonTexts} \cup NotJsonTexts

\* json::parse
parse(text) ==
    IF \E p \in JsonTexts : p[1] = text
    THEN Ok((CHOOSE p \in JsonTexts : p[1] = text)[2])
    ELSE Err(JsonError(text))

Statuses == {200, 204, 300, 404}

\* StatusCode::is_success
is_success(status) == 200 <= status /\ status < 300

\* how the HTTP exchange of a call ends: send() fails, text() fails, or a
\* status and a body arrive
Outcomes ==
    {[kind |-> "send_error"]}
        \cup {[kind |-> "text_error", status |-> s] : s \in Statuses}
        \cup {[kind |-> "response", status |-> s, text |-> b] :
                s \in Statuses, b \in BodyTexts}

-----------------------------------------------------------------------------
(* Transport adapter: client.rs, execute_query.  Returns the result and    *)
(* the requests it issued.                                                 *)

Get(url) == [ev |-> "GET", arg |-> url]
Decode(fn) == [ev |-> "decode", arg |-> fn]

\* mutant: the status is looked at before the body is parsed
execute_query_status_first(url, out) ==
    LET data == parse(out.text)
        r == IF out.kind = "send_error" THEN Err(RequestError(url))
             ELSE IF out.kind = "text_error" THEN Err(RequestError(url))
             ELSE IF ~is_success(out.status)
             THEN Err(CallError(url, out.text, out.status))
             ELSE IF data.tag # "Ok" THEN data
             ELSE Ok(data.v)
    IN  [ret |-> r, trace |-> <<Get(url)>>]

\* mutant: the call error carries the body as received
execute_query_raw_body(url, out) ==
    LET data == parse(out.text)
        r == IF out.kind = "send_error" THEN Err(RequestError(url))
             ELSE IF out.kind = "text_error" THEN Err(RequestError(url))
             ELSE IF data.tag # "Ok" THEN data
             ELSE IF is_success(out.status) THEN Ok(data.v)
             ELSE Err(CallError(url, out.text, out.status))
    IN  [ret |-> r, trace |-> <<Get(url)>>]

\* mutant: a request that could not be sent is sent once more
execute_query_retry(url, out) ==
    LET data == parse(out.text)
        r == IF out.kind = "send_error" THEN Err(RequestError(url))
             ELSE IF out.kind = "text_error" THEN Err(RequestError(url))
             ELSE IF data.tag # "Ok" THEN data
             ELSE IF is_success(out.status) THEN Ok(data.v)
             ELSE Err(CallError(url, dump(data.v), out.status))
    IN  [ret |-> r,
         trace |-> IF out.kind = "send_error" THEN <<Get(url), Get(url)>>
                   ELSE <<Get(url)>>]

execute_query(url, out) ==
    LET data == parse(out.text)
        r == IF out.kind = "send_error" THEN Err(RequestError(url))
             ELSE IF out.kind = "text_error" THEN Err(RequestError(url))
             ELSE IF data.tag # "Ok" THEN data
             ELSE IF is_success(out.status) THEN Ok(data.v)
             ELSE Err(CallError(url, dump(data.v), out.status))
    IN  [ret |-> r, trace |-> <<Get(url)>>]

-----------------------------------------------------------------------------
(* Endpoint methods: client.rs, index, index_day, index_city, episode.     *)
(* Each returns its result and what it did.                                *)

\* mutant: a failed query is answered with an empty list
Feed_default(response, fn, decoded) ==
    IF response.ret.tag # "Ok" THEN [ret |-> Ok(<<>>), trace |-> response.trace]
    ELSE [ret |-> decoded, trace |-> Append(response.trace, Decode(fn))]

\* response: the result of execute_query; decoded: the decoder's result
Feed(response, fn, decoded) ==
    IF response.ret.tag # "Ok" THEN response
    ELSE [ret |-> decoded, trace |-> Append(response.trace, Decode(fn))]

index_url(c) == c.base_url \o "/indice?key=" \o c.api_key

index(c, out, clk) ==
    LET response == execute_query(index_url(c), out)
    IN  Feed(response, "index_to_index", index_to_index(response.ret.v, clk))

DayToken(day) ==
    CASE day = "Yesterday" -> "hier"
      [] day = "Today" -> "jour"
      [] day = "Tomorrow" -> "demain"

index_day_url(c, day) ==
    c.base_url \o "/indiceJour?date=" \o DayToken(day) \o "&key=" \o c.api_key

index_day(c, day, out) ==
    LET response == execute_query(index_day_url(c, day), out)
    IN  Feed(response, "index_day_to_index", index_day_to_index(response.ret.v))

RECURSIVE join(_, _)
RECURSIVE join_rev(_, _)
\* mutant: the strings are joined last to first
join_rev(ss, sep) ==
    IF ss = <<>> THEN ""
    ELSE IF Len(ss) = 1 THEN ss[1]
    ELSE join_rev(Tail(ss), sep) \o sep \o ss[1]

\* [&str]::join
join(ss, sep) ==
    IF ss = <<>> THEN ""
    ELSE IF Len(ss) = 1 THEN ss[1]
    ELSE ss[1] \o sep \o join(Tail(ss), sep)

index_city_url(c, cities) ==
    c.base_url \o "/idxville?villes=" \o join(cities, ",") \o "&key=" \o c.api_key

index_city(c, cities, out, clk) ==
    LET response == execute_query(index_city_url(c, cities), out)
    IN  Feed(response, "idxville_to_index", idxville_to_index(response.ret.v, clk))

episode_url(c) == c.base_url \o "/episode?key=" \o c.api_key

episode(c, out, clk) ==
    LET response == execute_query(episode_url(c), out)
    IN  Feed(response, "episode_to_episode", episode_to_episode(response.ret.v, clk))

-----------------------------------------------------------------------------
(* Spec: sequential endpoint calls on one client.  A call blocks until the *)
(* HTTP exchange ends, so a call is one step; the exchange's outcome and   *)
(* the moment the date advances are the environment's choice.              *)

\* RParifClient::new and RParifClient::new_test
Clients ==
    {[api_key |-> "my-api-key",
      base_url |-> "https://www.airparif.asso.fr/services/api/1.1"],
     NewClient}

Days == {"Yesterday", "Today", "Tomorrow"}
CityLists == {<<>>, <<"75101">>, <<"75101", "94028">>}

\* most reads of the current date in one call a date change is placed at
MaxReads == 3

Init ==
    /\ today = 0
    /\ clock = Clock(0, 0)
    /\ client \in Clients
    /\ pc = "idle"
    /\ call = NoCall
    /\ ncalls = 0
    /\ outcome = NoOutcome
    /\ ret = NoRet
    /\ trace = <<>>
    /\ alert = NoEpisode
    /\ iter = NoIter
    /\ last = "None"

\* where in a call the date may advance: before its t-th read, or not (0)
TickPoints == IF today < MaxTicks THEN 0..MaxReads ELSE {0}

\* the caller may call an endpoint method
CanCall == pc = "idle" /\ ncalls < MaxCalls

\* mutant: a call that fails drops the API key of the client
Called_rekey(fn, input, out, clk, r) ==
    /\ pc' = "done"
    /\ call' = [fn |-> fn, input |-> input]
    /\ ncalls' = ncalls + 1
    /\ outcome' = out
    /\ clock' = clk
    /\ today' = After(clk)
    /\ ret' = r.ret
    /\ trace' = r.trace
    /\ client' = IF r.ret.tag = "Err" THEN [client EXCEPT !.api_key = ""]
                  ELSE client
    /\ UNCHANGED objs

Called(fn, input, out, clk, r) ==
    /\ pc' = "done"
    /\ call' = [fn |-> fn, input |-> input]
    /\ ncalls' = ncalls + 1
    /\ outcome' = out
    /\ clock' = clk
    /\ today' = After(clk)
    /\ ret' = r.ret
    /\ trace' = r.trace
    /\ UNCHANGED <<client, objs>>

\* the URLs execute_query is called with directly
Urls == {"http://localhost:5000/path", "http://localhost:5001"}

CallExecuteQuery ==
    /\ CanCall
    /\ \E url \in Urls, out \in Outcomes :
        Called("execute_query", url, out, Clock(today, 0),
               execute_query(url, out))

CallIndex ==
    /\ CanCall
    /\ \E out \in Outcomes, t \in TickPoints :
        Called("index", <<>>, out, Clock(today, t),
               index(client, out, Clock(today, t)))

CallIndexDay ==
    /\ CanCall
    /\ \E day \in Days, out \in Outcomes :
        Called("index_day", day, out, Clock(today, 0),
               index_day(client, day, out))

CallIndexCity ==
    /\ CanCall
    /\ \E cities \in CityLists, out \in Outcomes, t \in TickPoints :
        Called("index_city", cities, out, Clock(today, t),
               index_city(client, cities, out, Clock(today, t)))

CallEpisode ==
    /\ CanCall
    /\ \E out \in Outcomes, t \in TickPoints :
        Called("episode", <<>>, out, Clock(today, t),
               episode(client, out, Clock(today, t)))

\* the caller takes the result; a panic ends the process
Return ==
    /\ pc = "done"
    /\ ret.tag # "Panic"
    /\ ncalls < MaxCalls
    /\ pc' = "idle"
    /\ call' = NoCall
    /\ outcome' = NoOutcome
    /\ ret' = NoRet
    /\ trace' = <<>>
    /\ last' = ret.tag
    /\ UNCHANGED <<today, clock, client, ncalls, alert, iter>>

Next ==
    \/ Tick
    \/ CallExecuteQuery
    \/ CallIndex
    \/ CallIndexDay
    \/ CallIndexCity
    \/ CallEpisode
    \/ Return

Spec == Init /\ [][Next]_vars

-----------------------------------------------------------------------------
(* SpecDecode: the decoders applied to a JSON value, as the unit tests of  *)
(* client.rs apply them.                                                   *)

\* values that are not arrays, one of every kind
NonArrays ==
    {JNull, JBool(TRUE), JInt(35), JNum(37, 0 - 1), JStr("jour"), JObj(<<>>),
     Obj1("data", JInt(0)), Obj2("date", JStr("jour"), "indice", JInt(35))}

\* values that are not objects
NonObjects == {JNull, JInt(35), JStr("jour"), JArr(<<>>), JArr(<<JInt(1)>>)}

\* elements of an indice document: valid ones, and one for every way an
\* element is wrong
IndexElems ==
    {Obj3("date", JStr("hier"), "indice", JInt(35), "url_carte", JStr("a")),
     Obj2("date", JStr("jour"), "indice", JInt(0)),
     Obj2("indice", JInt(70), "date", JStr("demain")),
     Obj3("date", JStr("jour"), "url_carte", JNull, "indice", JInt(12)),
     Obj2("date", JStr("jour"), "indice", JNum(125, 0 - 1)),
     Obj1("date", JStr("jour")),
     Obj2("date", JStr("x"), "indice", JInt(35)),
     Obj2("date", JStr("hier"), "indice", JStr("s")),
     Obj2("date", JStr("demain"), "indice", JInt(0 - 1)),
     Obj2("indice", JInt(35), "url_carte", JStr("a")),
     JInt(3)}

\* indiceJour documents
IndexDayObjects ==
    {Obj3("date", JStr("31/12/2019"),
          "global", Obj2("indice", JInt(35), "url_carte", JStr("a")),
          "o3", Obj1("indice", JInt(40))),
     Obj2("global", Obj1("indice", JInt(35)), "date", JStr("29/02/2020")),
     Obj1("date", JStr("01/01/2020")),
     Obj2("date", JStr("31/02/2019"), "global", Obj1("indice", JInt(35))),
     Obj2("date", JStr("09/08/2012"), "global", Obj1("url_carte", JStr("a"))),
     Obj2("date", JStr("09/08/2012"), "global", Obj1("indice", JStr("s"))),
     Obj2("date", JStr("09/08/2012"), "global", JInt(35)),
     Obj2("date", JInt(3), "global", Obj1("indice", JInt(35))),
     Obj1("global", Obj1("indice", JInt(35)))}

\* elements of an idxville document
IdxvilleElems ==
    {Obj3("ninsee", JStr("75101"),
          "hier", Obj2("indice", JInt(25), "polluants", StrArr(<<"no2", "pm10">>)),
          "jour", Obj1("indice", JInt(50))),
     Obj2("ninsee", JStr("94028"),
          "demain", Obj2("indice", JInt(60), "polluants", StrArr(<<"o3">>))),
     Obj2("jour", Obj1("indice", JInt(50)), "ninsee", JStr("75101")),
     Obj1("ninsee", JStr("75101")),
     Obj1("jour", Obj1("indice", JInt(50))),
     Obj2("ninsee", JInt(75101), "jour", Obj1("indice", JInt(50))),
     Obj2("ninsee", JStr("75101"), "x", Obj1("indice", JInt(50))),
     Obj2("ninsee", JStr("75101"), "jour", Obj1("polluants", StrArr(<<"o3">>))),
     Obj2("ninsee", JStr("75101"),
          "jour", Obj2("indice", JInt(50), "polluants", JArr(<<JInt(1)>>))),
     Obj2("ninsee", JStr("94028"),
          "hier", Obj2("polluants", JStr("o3"), "indice", JInt(10))),
     Obj2("ninsee", JStr("94028"),
          "demain", Obj2("indice", JInt(0), "polluants", JArr(<<>>))),
     Obj2("ninsee", JStr("75101"), "Hier", Obj1("indice", JStr("s"))),
     Obj3("ninsee", JStr("75101"), "jour", Obj1("indice", JInt(50)), "x", JNull),
     Obj3("ninsee", JStr("75101"), "jour", Obj1("indice", JStr("s")), "x", JNull),
     JStr("75101")}

\* elements of an episode document
EpisodeElems ==
    {Obj3("date", JStr("hier"), "detail", JStr(""),
          "o3", Obj3("type", JStr("constate"), "niveau", JStr("info"),
                     "criteres", StrArr(<<"km", "pop">>))),
     Obj3("date", JStr("demain"), "detail", JStr("text"),
          "pm10", Obj3("niveau", JStr("alerte"), "type", JStr("prevu"),
                       "criteres", StrArr(<<"pop">>))),
     Obj2("date", JStr("jour"), "detail", JStr("text")),
     Obj2("date", JStr("jour"),
          "o3", Obj2("type", JStr("constate"), "niveau", JStr("info"))),
     Obj2("date", JStr("x"), "detail", JStr("text")),
     Obj1("detail", JStr("text")),
     Obj2("date", JStr("jour"),
          "o3", Obj2("type", JStr("constate"), "niveau", JStr("bad"))),
     Obj2("date", JStr("jour"),
          "o3", Obj2("type", JStr("bad"), "niveau", JStr("info"))),
     Obj2("date", JStr("demain"),
          "o3", Obj3("type", JStr("prevu"), "niveau", JStr("alerte"),
                     "criteres", StrArr(<<"x">>))),
     Obj3("o3", Obj2("type", JStr("prevu"), "niveau", JStr("normal")),
          "date", JStr("jour"),
          "no2", Obj3("type", JStr("constate"), "niveau", JStr("alerte"),
                      "criteres", JStr("km"))),
     Obj2("date", JStr("hier"), "detail", JInt(3)),
     JNull}

\* sub-objects of an episode element put together: each of type, niveau
\* and criteres absent, valid, or wrong in one of the ways it can be
TypeMembers ==
    {<<>>} \cup {<< <<"type", v>> >> :
                    v \in {JStr("constate"), JStr("prevu"), JStr("Prevu"), JInt(1)}}

LevelMembers ==
    {<<>>} \cup {<< <<"niveau", v>> >> :
                    v \in {JStr("info"), JStr("alerte"), JStr("normal"),
                           JStr(""), JNull}}

CriteriaMembers ==
    {<<>>} \cup {<< <<"criteres", v>> >> :
                    v \in {StrArr(<<"pop", "km">>), JArr(<<>>), JStr("km"),
                           StrArr(<<"km", "x">>), JArr(<<JInt(1)>>)}}

EpisodeSubObjects ==
    {JObj(t \o l \o c) :
        t \in TypeMembers, l \in LevelMembers, c \in CriteriaMembers}

\* documents of one element with one such sub-object
EpisodeSingles ==
    {JArr(<<Obj2("date", JStr("jour"), "o3", sub)>>) : sub \in EpisodeSubObjects}

\* elements of an indice document whose date is missing or wrong and whose
\* indice is missing or wrong too
IndexDateFaults ==
    {Obj1("url_carte", JStr("a")),
     Obj1("indice", JStr("s")),
     Obj1("date", JInt(3)),
     Obj2("indice", JStr("s"), "date", JStr("x")),
     Obj2("date", JStr("Hier"), "indice", JInt(0 - 1)),
     JNull}

\* elements of an episode document whose date is missing or wrong and whose
\* pollutant sub-object is wrong too
EpisodeDateFaults ==
    {Obj1("o3", JNull),
     Obj2("o3", Obj1("type", JStr("bad")), "date", JStr("x")),
     Obj2("date", JInt(3),
          "o3", Obj3("type", JStr("prevu"), "niveau", JStr("alerte"),
                     "criteres", StrArr(<<"x">>))),
     JStr("jour")}

\* documents that end with such an element, alone or after a valid one
EndingWith(valid, faults) ==
    {JArr(<<e>>) : e \in faults} \cup {JArr(<<valid, e>>) : e \in faults}

\* every array of at most MaxLen of the elements
ArraysOf(elems) == {JArr(s) : s \in SeqsUpTo(elems, MaxLen)}

IndexInputs ==
    NonArrays \cup ArraysOf(IndexElems)
        \cup EndingWith(Obj2("date", JStr("jour"), "indice", JInt(0)),
                        IndexDateFaults)
\* indiceJour documents put together: a date member or none, first or
\* last, and at most MaxKeys pollutant members
DayDates ==
    {JStr("31/12/2019"), JStr("29/02/2020"), JStr("31/02/2019"),
     JStr("wrong string"), JInt(3)}

DaySubObjects ==
    {Obj1("indice", JInt(35)),
     Obj2("indice", JInt(40), "url_carte", JStr("a")),
     Obj2("url_carte", JInt(3), "indice", JInt(35)),
     Obj2("indice", JInt(0), "url_carte", JNull),
     Obj1("url_carte", JStr("a")),
     Obj1("indice", JStr("s")),
     JInt(35)}

DayPollutants == {"global", "o3"}

DayMembers ==
    {s \in SeqsUpTo(DayPollutants \X DaySubObjects, MaxKeys) :
        Injective([n \in 1..Len(s) |-> s[n][1]])}

DayObjects ==
    {JObj(s) : s \in DayMembers}
        \cup {JObj(<< <<"date", d>> >> \o s) : d \in DayDates, s \in DayMembers}
        \cup {JObj(s \o << <<"date", d>> >>) : d \in DayDates, s \in DayMembers}

IndexDayInputs == NonObjects \cup IndexDayObjects \cup DayObjects
IdxvilleInputs == NonArrays \cup ArraysOf(IdxvilleElems)
EpisodeInputs ==
    NonArrays \cup ArraysOf(EpisodeElems) \cup EpisodeSingles
        \cup EndingWith(Obj2("date", JStr("jour"), "detail", JStr("text")),
                        EpisodeDateFaults)

InitDecode ==
    /\ today = 0
    /\ clock = Clock(0, 0)
    /\ client = NewClient
    /\ pc = "idle"
    /\ call = NoCall
    /\ ncalls = 0
    /\ outcome = NoOutcome
    /\ ret = NoRet
    /\ trace = <<>>
    /\ alert = NoEpisode
    /\ iter = NoIter
    /\ last = "None"

Decoded(fn, json, clk, r) ==
    /\ pc' = "done"
    /\ call' = [fn |-> fn, input |-> json]
    /\ ncalls' = ncalls + 1
    /\ clock' = clk
    /\ today' = After(clk)
    /\ ret' = r
    /\ UNCHANGED <<client, outcome, trace, objs>>

IndexToIndex ==
    /\ CanCall
    /\ \E json \in IndexInputs, t \in TickPoints :
        Decoded("index_to_index", json, Clock(today, t),
                index_to_index(json, Clock(today, t)))

IndexDayToIndex ==
    /\ CanCall
    /\ \E json \in IndexDayInputs :
        Decoded("index_day_to_index", json, Clock(today, 0),
                index_day_to_index(json))

IdxvilleToIndex ==
    /\ CanCall
    /\ \E json \in IdxvilleInputs, t \in TickPoints :
        Decoded("idxville_to_index", json, Clock(today, t),
                idxville_to_index(json, Clock(today, t)))

EpisodeToEpisode ==
    /\ CanCall
    /\ \E json \in EpisodeInputs, t \in TickPoints :
        Decoded("episode_to_episode", json, Clock(today, t),
                episode_to_episode(json, Clock(today, t)))

NextDecode ==
    \/ Tick
    \/ IndexToIndex
    \/ IndexDayToIndex
    \/ IdxvilleToIndex
    \/ EpisodeToEpisode
    \/ Return

SpecDecode == InitDecode /\ [][NextDecode]_vars

-----------------------------------------------------------------------------
(* SpecAgain: a decoder applied to a JSON value, and then once more to the *)
(* same value, possibly on the next day.                                   *)

Decoders ==
    {"index_to_index", "index_day_to_index", "idxville_to_index",
     "episode_to_episode"}

\* mutant: the records of the call before are still in the result
decode_stale(fn, json, clk) ==
    LET r == CASE fn = "index_to_index" -> index_to_index(json, clk)
               [] fn = "index_day_to_index" -> index_day_to_index(json)
               [] fn = "idxville_to_index" -> idxville_to_index(json, clk)
               [] fn = "episode_to_episode" -> episode_to_episode(json, clk)
    IN  IF ncalls > 0 /\ r.tag = "Ok" THEN Ok(r.v \o r.v) ELSE r

\* the decoder named fn applied to json
decode(fn, json, clk) ==
    CASE fn = "index_to_index" -> index_to_index(json, clk)
      [] fn = "index_day_to_index" -> index_day_to_index(json)
      [] fn = "idxville_to_index" -> idxville_to_index(json, clk)
      [] fn = "episode_to_episode" -> episode_to_episode(json, clk)

\* the values decoded twice: no array, and arrays of one element
AgainInputs(fn) ==
    CASE fn = "index_to_index" ->
            NonArrays \cup {JArr(<<e>>) : e \in IndexElems}
      [] fn = "index_day_to_index" -> NonObjects \cup IndexDayObjects
      [] fn = "idxville_to_index" ->
            NonArrays \cup {JArr(<<e>>) : e \in IdxvilleElems}
      [] fn = "episode_to_episode" ->
            NonArrays \cup {JArr(<<e>>) : e \in EpisodeElems}

DecodeFirst ==
    /\ CanCall
    /\ \E fn \in Decoders, t \in TickPoints :
        \E json \in AgainInputs(fn) :
            Decoded(fn, json, Clock(today, t), decode(fn, json, Clock(today, t)))

\* the caller decodes the value it has just decoded
DecodeAgain ==
    /\ pc = "done"
    /\ ret.tag # "Panic"
    /\ ncalls < MaxCalls
    /\ \E t \in TickPoints :
        /\ pc' = "again"
        /\ ncalls' = ncalls + 1
        /\ clock' = Clock(today, t)
        /\ today' = After(Clock(today, t))
        /\ ret' = decode(call.fn, call.input, Clock(today, t))
        /\ UNCHANGED <<client, call, outcome, trace, objs>>

NextAgain ==
    \/ Tick
    \/ DecodeFirst
    \/ DecodeAgain

SpecAgain == InitDecode /\ [][NextAgain]_vars

-----------------------------------------------------------------------------
(* SpecEpisode: an Episode is built, entries are added to it, and it is    *)
(* iterated: objects.rs.  ncalls counts the calls of next.                 *)

EpisodeDates == {0, 18261}
EpisodeDetails == {None, Some("text")}

\* the arguments of Episode::add
PollutantEntries ==
    {[pollutant |-> "o3", kind |-> "Observed", level |-> "Info",
      criteria |-> <<"Area", "Population">>],
     [pollutant |-> "so2", kind |-> "Observed", level |-> "Alert",
      criteria |-> <<"Population">>],
     [pollutant |-> "no2", kind |-> "Forecast", level |-> "Normal",
      criteria |-> <<>>]}

EpisodeNew ==
    /\ pc = "idle"
    /\ \E date \in EpisodeDates, detail \in EpisodeDetails :
        /\ alert' = Episode_new(date, detail)
        /\ call' = [fn |-> "Episode::new", input |-> <<date, detail>>]
    /\ pc' = "built"
    /\ trace' = <<>>
    /\ UNCHANGED <<today, clock, client, ncalls, outcome, ret, iter, last>>

EpisodeAdd ==
    /\ pc = "built"
    /\ Len(alert.pollutants) < MaxAdds
    /\ \E e \in PollutantEntries :
        /\ alert' = Episode_add(alert, e.pollutant, e.kind, e.level, e.criteria)
        /\ call' = [fn |-> "Episode::add", input |-> e]
        /\ trace' = Append(trace, e)
    /\ UNCHANGED <<today, clock, client, pc, ncalls, outcome, ret, iter, last>>

\* for .. in episode: the Episode moves into the iterator
IntoIter ==
    /\ pc = "built"
    /\ iter' = into_iter(alert)
    /\ alert' = NoEpisode
    /\ pc' = "iterating"
    /\ call' = [fn |-> "Episode::into_iter"]
    /\ UNCHANGED <<today, clock, client, ncalls, outcome, ret, trace, last>>

IterNext ==
    /\ pc = "iterating"
    /\ ncalls < Len(iter.episode.pollutants) + MaxPast
    /\ iter' = next(iter).iter
    /\ ret' = next(iter).ret
    /\ ncalls' = ncalls + 1
    /\ call' = [fn |-> "PollutantEpisodeIter::next"]
    /\ UNCHANGED <<today, clock, client, pc, outcome, trace, alert, last>>

NextEpisode ==
    \/ EpisodeNew
    \/ EpisodeAdd
    \/ IntoIter
    \/ IterNext

SpecEpisode == InitDecode /\ [][NextEpisode]_vars

-----------------------------------------------------------------------------
(* CLAIMS *)

CallDone(fns) == pc = "done" /\ call.fn \in fns

WellFormed(text) == \E p \in JsonTexts : p[1] = text
Parsed(text) == (CHOOSE p \in JsonTexts : p[1] = text)[2]

\* C1: when the HTTP exchange of execute_query completes with a body that
\* is not well-formed JSON, the result is JsonError for every status code;
\* a non-2xx status never turns it into CallError.
C1_NotJsonIsJsonError ==
    (CallDone({"execute_query"}) /\ outcome.kind = "response"
        /\ ~WellFormed(outcome.text)) =>
            /\ outcome.text \in NotJsonTexts
            /\ ret.tag = "Err"
            /\ ret.v.t = "JsonError"
            /\ ret.v.t # "CallError"

C1_Witness ==
    /\ CallDone({"execute_query"})
    /\ outcome = [kind |-> "response", status |-> 404,
                  text |-> "this is not a json"]
    /\ ret = Err(JsonError("this is not a json"))

\* C2: when the body is well-formed JSON, execute_query returns Ok with the
\* parsed tree on a 2xx status and otherwise CallError with the URL it was
\* given, the response status and the serialization of the parsed JSON;
\* nothing else.
C2_WellFormedBody ==
    (CallDone({"execute_query"}) /\ outcome.kind = "response"
        /\ WellFormed(outcome.text)) =>
            LET j == Parsed(outcome.text)
            IN  /\ outcome.status \in 200..299 => ret = Ok(j)
                /\ outcome.status \notin 200..299 =>
                    /\ ret.tag = "Err"
                    /\ ret.v = [t |-> "CallError", url |-> call.input,
                                body |-> dump(j), status |-> outcome.status]
                /\ (outcome.text = " {\"data\":0} " /\ outcome.status = 300) =>
                    ret.v.body = "{\"data\":0}"

C2_Witness ==
    /\ CallDone({"execute_query"})
    /\ outcome = [kind |-> "response", status |-> 300, text |-> " {\"data\":0} "]
    /\ ret = Err(CallError("http://localhost:5000/path", "{\"data\":0}", 300))

EndpointFns == {"index", "index_day", "index_city", "episode"}

\* the URL the endpoint of the call in progress queries
CallUrl ==
    CASE call.fn = "index" -> index_url(client)
      [] call.fn = "index_day" -> index_day_url(client, call.input)
      [] call.fn = "index_city" -> index_city_url(client, call.input)
      [] call.fn = "episode" -> episode_url(client)

\* the decoder of the endpoint of the call in progress, and what it returns
CallDecoder ==
    CASE call.fn = "index" -> "index_to_index"
      [] call.fn = "index_day" -> "index_day_to_index"
      [] call.fn = "index_city" -> "idxville_to_index"
      [] call.fn = "episode" -> "episode_to_episode"

CallDecoded(json) ==
    CASE call.fn = "index" -> index_to_index(json, clock)
      [] call.fn = "index_day" -> index_day_to_index(json)
      [] call.fn = "index_city" -> idxville_to_index(json, clock)
      [] call.fn = "episode" -> episode_to_episode(json, clock)

Events(ev) == {n \in 1..Len(trace) : trace[n].ev = ev}

\* C3: an endpoint whose transport adapter fails returns exactly the
\* adapter's error and never runs its decoder; an endpoint whose decoder
\* fails returns exactly the decoder's error; an endpoint returns Ok only
\* when the status was 2xx, the body parsed and the decoder succeeded.
C3_EndpointPropagation ==
    CallDone(EndpointFns) =>
        LET a == execute_query(CallUrl, outcome).ret
        IN  /\ a.tag = "Err" =>
                /\ a.v.t \in {"RequestError", "JsonError", "CallError"}
                /\ ret = a
                /\ Events("decode") = {}
            /\ a.tag = "Ok" =>
                /\ \A n \in Events("decode") : trace[n] = Decode(CallDecoder)
                /\ Cardinality(Events("decode")) = 1
                /\ CallDecoded(a.v).tag = "Err" => ret = CallDecoded(a.v)
            /\ ret.tag = "Ok" =>
                /\ outcome.kind = "response"
                /\ outcome.status \in 200..299
                /\ WellFormed(outcome.text)
                /\ CallDecoded(Parsed(outcome.text)) = ret

\* an endpoint call whose adapter failed on a non-2xx status
C3_Witness ==
    /\ CallDone({"index_city"})
    /\ outcome.kind = "response"
    /\ outcome.status = 404
    /\ WellFormed(outcome.text)
    /\ ret.tag = "Err"
    /\ ret.v.t = "CallError"
    /\ Events("decode") = {}

\* C4: every call of an endpoint method issues exactly one HTTP GET, to
\* the endpoint's URL, whatever the outcome of the call; no request is
\* repeated.
C4_OneGet ==
    CallDone(EndpointFns) =>
        /\ Cardinality(Events("GET")) = 1
        /\ \A n \in Events("GET") : trace[n] = Get(CallUrl)

C4_Witness ==
    /\ CallDone({"episode"})
    /\ outcome.kind = "send_error"
    /\ ret = Err(RequestError(episode_url(client)))
    /\ Cardinality(Events("GET")) = 1

ArrayDecoders == {"index_to_index", "idxville_to_index", "episode_to_episode"}

\* C9: decoders A, C and D answer every value that is not an array with
\* WrongJsonType, expected "array" and json the dump of the whole input,
\* and answer the empty array with Ok and an empty list.
C9_NotAnArray ==
    CallDone(ArrayDecoders) =>
        /\ call.input.t # "arr" =>
            ret = Err([t |-> "WrongJsonType", expected |-> "array",
                       json |-> dump(call.input)])
        /\ call.input = JStr("jour") => ret.v.json = "\"jour\""
        /\ call.input = Obj1("data", JInt(0)) => ret.v.json = "{\"data\":0}"
        /\ call.input = JArr(<<>>) => ret = Ok(<<>>)

C9_Witness ==
    /\ CallDone({"index_to_index"})
    /\ call.input = JStr("jour")
    /\ ret = Err(WrongJsonType("array", "\"jour\""))

\* an element of an indice document that is valid: an object whose date is
\* one of the three tokens and whose indice is a non-negative integer
ValidIndexElem(e) ==
    /\ e.t = "obj"
    /\ Member(e, "date").t = "str"
    /\ Member(e, "date").v \in RelativeDays
    /\ Member(e, "indice").t = "num"
    /\ Member(e, "indice").v[2] = 0
    /\ Member(e, "indice").v[1] >= 0

TokenOffset(token) ==
    CASE token = "hier" -> 0 - 1
      [] token = "jour" -> 0
      [] token = "demain" -> 1

\* C10: decoder A on an array of valid elements returns one Measurement
\* per element in array order; the i-th has the date its element's token
\* resolves to on the day the element is read, the element's indice as
\* index, pollutants <<"global">>, no city code, and a map URL exactly when
\* the element has the key url_carte.
C10_IndexDecoded ==
    (CallDone({"index_to_index"}) /\ call.input.t = "arr"
        /\ \A n \in 1..Len(call.input.v) : ValidIndexElem(call.input.v[n])) =>
            /\ ret.tag = "Ok"
            /\ Len(ret.v) = Len(call.input.v)
            /\ \A n \in 1..Len(call.input.v) :
                LET e == call.input.v[n]
                    m == ret.v[n]
                IN  /\ m.date = Read(clock, n) + TokenOffset(Member(e, "date").v)
                    /\ m.index = Member(e, "indice").v[1]
                    /\ m.pollutants = <<"global">>
                    /\ m.insee = None
                    /\ m.url.some <=> has_key(e, "url_carte")

C10_Witness ==
    /\ CallDone({"index_to_index"})
    /\ clock = Clock(0, 2)
    /\ call.input =
        JArr(<<Obj3("date", JStr("hier"), "indice", JInt(35), "url_carte", JStr("a")),
               Obj2("indice", JInt(70), "date", JStr("demain"))>>)
    /\ ret = Ok(<<Index(0 - 1, Some("a"), <<"global">>, 35, None),
                  Index(2, None, <<"global">>, 70, None)>>)

\* the day number (days since 1970-01-01) of the dates that exist
DayTexts == {"31/12/2019", "01/01/2020", "09/08/2012", "29/02/2020"}
DayNumber(text) ==
    CASE text = "31/12/2019" -> 18261
      [] text = "01/01/2020" -> 18262
      [] text = "09/08/2012" -> 15561
      [] text = "29/02/2020" -> 18321

\* a non-negative integer member indice
ValidIndice(v) ==
    /\ Member(v, "indice").t = "num"
    /\ Member(v, "indice").v[2] = 0
    /\ Member(v, "indice").v[1] >= 0

\* the members of an object other than the ones named, in source order
OtherMembers(j, keys) ==
    LET Other(e) == e[1] \notin keys
    IN  SelectSeq(entries(j), Other)

\* an indiceJour document that is valid: an object with a date that exists
\* and, under every other key, an object with a non-negative integer indice
ValidDayObject(j) ==
    /\ j.t = "obj"
    /\ Member(j, "date").t = "str"
    /\ Member(j, "date").v \in DayTexts
    /\ \A n \in 1..Len(j.v) :
        j.v[n][1] # "date" => (j.v[n][2].t = "obj" /\ ValidIndice(j.v[n][2]))

\* C11: decoder B on a valid object returns one Measurement per key other
\* than date, in the source order of the keys, each with the date parsed
\* from the date member, pollutants <<key>>, the sub-object's indice as
\* index and no city code; an object holding only date yields an empty list.
C11_IndexDayDecoded ==
    (CallDone({"index_day_to_index"}) /\ ValidDayObject(call.input)) =>
        LET ms == OtherMembers(call.input, {"date"})
        IN  /\ ret.tag = "Ok"
            /\ Len(ret.v) = Len(ms)
            /\ \A n \in 1..Len(ms) :
                /\ ret.v[n].date = DayNumber(Member(call.input, "date").v)
                /\ ret.v[n].pollutants = <<ms[n][1]>>
                /\ ret.v[n].index = Member(ms[n][2], "indice").v[1]
                /\ ret.v[n].insee = None
            /\ Len(call.input.v) = 1 => ret = Ok(<<>>)

C11_Witness ==
    /\ CallDone({"index_day_to_index"})
    /\ call.input =
        Obj3("date", JStr("31/12/2019"),
             "global", Obj2("indice", JInt(35), "url_carte", JStr("a")),
             "o3", Obj1("indice", JInt(40)))
    /\ ret = Ok(<<Index(18261, Some("a"), <<"global">>, 35, None),
                  Index(18261, None, <<"o3">>, 40, None)>>)

\* C12: in decoder B the map URL is optional: a sub-object whose url_carte
\* is absent or not a string still gives its Measurement, without a URL,
\* and the decode does not fail; the URL is there exactly when url_carte
\* is a JSON string, and is that string.
C12_IndexDayUrl ==
    (CallDone({"index_day_to_index"}) /\ ValidDayObject(call.input)) =>
        LET ms == OtherMembers(call.input, {"date"})
        IN  /\ ret.tag = "Ok"
            /\ Len(ret.v) = Len(ms)
            /\ \A n \in 1..Len(ms) :
                LET u == Member(ms[n][2], "url_carte")
                IN  IF u.t = "str" THEN ret.v[n].url = Some(u.v)
                    ELSE ret.v[n].url = None

C12_Witness ==
    /\ CallDone({"index_day_to_index"})
    /\ call.input =
        Obj3("date", JStr("29/02/2020"),
             "global", Obj2("url_carte", JInt(3), "indice", JInt(35)),
             "o3", Obj2("indice", JInt(40), "url_carte", JStr("a")))
    /\ ret = Ok(<<Index(18321, None, <<"global">>, 35, None),
                  Index(18321, Some("a"), <<"o3">>, 40, None)>>)

\* C13: decoder B settles date before any pollutant member: no date (as in
\* every input that is not an object) gives MissingJsonKey with key "date",
\* a date that is not a string gives WrongJsonType expecting "string", a
\* string that is not a date gives DateParseError; so also when a pollutant
\* sub-object is invalid as well, and no Measurement is returned.
C13_IndexDayDateFirst ==
    CallDone({"index_day_to_index"}) =>
        LET j == call.input
            d == Member(j, "date")
        IN  /\ ~has_key(j, "date") =>
                ret = Err([t |-> "MissingJsonKey", key |-> "date",
                           json |-> dump(j)])
            /\ (has_key(j, "date") /\ d.t # "str") =>
                ret = Err([t |-> "WrongJsonType", expected |-> "string",
                           json |-> dump(d)])
            /\ (has_key(j, "date") /\ d.t = "str" /\ d.v \notin DayTexts) =>
                (ret.tag = "Err" /\ ret.v.t = "DateParseError")

\* the date is not a date and the only pollutant sub-object has no indice
C13_Witness ==
    /\ CallDone({"index_day_to_index"})
    /\ call.input =
        Obj2("global", Obj1("url_carte", JStr("a")), "date", JStr("31/02/2019"))
    /\ ret = Err(DateParseError("31/02/2019"))

\* the strings of a polluants member, none when it is not an array
Polluants(v) ==
    LET p == Member(v, "polluants")
    IN  IF p.t = "arr" THEN [n \in 1..Len(p.v) |-> p.v[n].v] ELSE <<>>

\* a member of a city that is valid: a relative day and an object with a
\* non-negative integer indice and, if polluants is an array, strings in it
ValidCityMember(e) ==
    /\ e[1] \in RelativeDays
    /\ e[2].t = "obj"
    /\ ValidIndice(e[2])
    /\ Member(e[2], "polluants").t = "arr" =>
        \A n \in 1..Len(Member(e[2], "polluants").v) :
            Member(e[2], "polluants").v[n].t = "str"

ValidCity(i) ==
    /\ i.t = "obj"
    /\ Member(i, "ninsee").t = "str"
    /\ \A n \in 1..Len(i.v) : i.v[n][1] # "ninsee" => ValidCityMember(i.v[n])

RECURSIVE CityMembers(_, _)
\* the (ninsee, key, sub-object) triples of the cities from the n-th on,
\* city by city and in the source order of the keys
CityMembers(data, n) ==
    IF n > Len(data) THEN <<>>
    ELSE LET ms == OtherMembers(data[n], {"ninsee"})
         IN  [k \in 1..Len(ms) |->
                <<Member(data[n], "ninsee").v, ms[k][1], ms[k][2]>>]
                \o CityMembers(data, n + 1)

\* C14: decoder C on a valid array returns one Measurement per city and
\* key other than ninsee, city by city in array order and key by key in
\* source order, each with the date its key resolves to on the day it is
\* read, the sub-object's indice, the city's ninsee, no map URL, and the
\* strings of polluants in order, none when polluants is not an array.
C14_IdxvilleDecoded ==
    (CallDone({"idxville_to_index"}) /\ call.input.t = "arr"
        /\ \A n \in 1..Len(call.input.v) : ValidCity(call.input.v[n])) =>
            LET ms == CityMembers(call.input.v, 1)
            IN  /\ ret.tag = "Ok"
                /\ Len(ret.v) = Len(ms)
                /\ \A k \in 1..Len(ms) :
                    /\ ret.v[k].insee = Some(ms[k][1])
                    /\ ret.v[k].date = Read(clock, k) + TokenOffset(ms[k][2])
                    /\ ret.v[k].index = Member(ms[k][3], "indice").v[1]
                    /\ ret.v[k].url = None
                    /\ ret.v[k].pollutants = Polluants(ms[k][3])

C14_Witness ==
    /\ CallDone({"idxville_to_index"})
    /\ clock = Clock(0, 2)
    /\ call.input =
        JArr(<<Obj3("ninsee", JStr("75101"),
                    "hier", Obj2("indice", JInt(25),
                                 "polluants", StrArr(<<"no2", "pm10">>)),
                    "jour", Obj1("indice", JInt(50))),
               Obj2("ninsee", JStr("94028"),
                    "demain", Obj2("indice", JInt(60),
                                   "polluants", StrArr(<<"o3">>)))>>)
    /\ ret = Ok(<<Index(0 - 1, None, <<"no2", "pm10">>, 25, Some("75101")),
                  Index(1, None, <<>>, 50, Some("75101")),
                  Index(2, None, <<"o3">>, 60, Some("94028"))>>)

MeasurementDecoders ==
    {"index_to_index", "index_day_to_index", "idxville_to_index"}

\* C15 as stated: every Measurement a decoder returns has a non-empty
\* pollutants list.
C15_PollutantsNonEmpty ==
    (CallDone(MeasurementDecoders) /\ ret.tag = "Ok") =>
        \A n \in 1..Len(ret.v) : ret.v[n].pollutants # <<>>

\* C15 amended: a Measurement of decoder A or B names exactly one
\* pollutant; a Measurement of decoder C has the strings of its
\* sub-object's polluants, and so has an empty pollutants list exactly when
\* polluants is absent, not an array or an empty array.
C15_PollutantsOfDecoder ==
    (CallDone(MeasurementDecoders) /\ ret.tag = "Ok") =>
        /\ call.fn # "idxville_to_index" =>
            \A n \in 1..Len(ret.v) : Len(ret.v[n].pollutants) = 1
        /\ call.fn = "idxville_to_index" =>
            LET ms == CityMembers(call.input.v, 1)
            IN  /\ Len(ret.v) = Len(ms)
                /\ \A k \in 1..Len(ms) :
                    ret.v[k].pollutants = <<>> <=>
                        (Member(ms[k][3], "polluants").t # "arr"
                            \/ Member(ms[k][3], "polluants").v = <<>>)

C15_Witness ==
    /\ CallDone({"idxville_to_index"})
    /\ call.input = JArr(<<Obj2("jour", Obj1("indice", JInt(50)),
                                "ninsee", JStr("75101"))>>)
    /\ ret = Ok(<<Index(Read(clock, 1), None, <<>>, 50, Some("75101"))>>)

\* C16: in decoder C a key of a city, other than ninsee, that is none of
\* hier, jour and demain fails the decode with UnexpectedDate carrying the
\* key as it is, unquoted, whatever its sub-object holds: the key is
\* resolved before the sub-object is read.  Stated for the first such key
\* the decoder comes to, everything before it being valid.
C16_IdxvilleKeyFirst ==
    (CallDone({"idxville_to_index"}) /\ call.input.t = "arr") =>
        \A c \in 1..Len(call.input.v) :
            LET i == call.input.v[c]
                es == entries(i)
            IN  \A k \in 1..Len(es) :
                    ( /\ \A c2 \in 1..(c - 1) : ValidCity(call.input.v[c2])
                      /\ Member(i, "ninsee").t = "str"
                      /\ \A k2 \in 1..(k - 1) :
                            es[k2][1] = "ninsee" \/ ValidCityMember(es[k2])
                      /\ es[k][1] \notin RelativeDays \cup {"ninsee"} ) =>
                        ret = Err([t |-> "UnexpectedDate", value |-> es[k][1]])

\* the key is not a day and its sub-object has a non-numeric indice
C16_Witness ==
    /\ CallDone({"idxville_to_index"})
    /\ call.input =
        JArr(<<Obj2("ninsee", JStr("94028"),
                    "demain", Obj2("indice", JInt(60),
                                   "polluants", StrArr(<<"o3">>))),
               Obj2("ninsee", JStr("75101"), "Hier", Obj1("indice", JStr("s")))>>)
    /\ ret = Err(UnexpectedDate("Hier"))

TypeTokens == {"prevu", "constate"}
LevelTokens == {"info", "alerte", "normal"}
CriteriaTokens == {"km", "pop"}

KindOf(token) == IF token = "prevu" THEN "Forecast" ELSE "Observed"
LevelOf(token) ==
    IF token = "info" THEN "Info"
    ELSE IF token = "alerte" THEN "Alert" ELSE "Normal"
CriteriaOf(token) == IF token = "km" THEN "Area" ELSE "Population"

\* the strings of a criteres member are all strings
StringCriteria(v) ==
    Member(v, "criteres").t = "arr" =>
        \A n \in 1..Len(Member(v, "criteres").v) :
            Member(v, "criteres").v[n].t = "str"

\* the strings of a criteres member that are no Criteria token
UnknownCriteria(v) ==
    IF Member(v, "criteres").t # "arr" THEN {}
    ELSE {Member(v, "criteres").v[n].v : n \in 1..Len(Member(v, "criteres").v)}
            \ CriteriaTokens

ValidTypeLevel(v) ==
    /\ v.t = "obj"
    /\ Member(v, "type").t = "str"
    /\ Member(v, "type").v \in TypeTokens
    /\ Member(v, "niveau").t = "str"
    /\ Member(v, "niveau").v \in LevelTokens

\* a pollutant sub-object that is valid
ValidEpisodeSub(v) ==
    ValidTypeLevel(v) /\ StringCriteria(v) /\ UnknownCriteria(v) = {}

ValidEpisodeDate(j) ==
    j.t = "obj" /\ Member(j, "date").t = "str" /\ Member(j, "date").v \in RelativeDays

\* an element of an episode document that is valid
ValidEpisode(j) ==
    /\ ValidEpisodeDate(j)
    /\ \A n \in 1..Len(j.v) :
        j.v[n][1] \notin {"date", "detail"} => ValidEpisodeSub(j.v[n][2])

\* the Criteria of a valid sub-object, in order
CriteriaList(v) ==
    LET c == Member(v, "criteres")
    IN  IF c.t = "arr" THEN [n \in 1..Len(c.v) |-> CriteriaOf(c.v[n].v)] ELSE <<>>

\* C17: decoder D on a valid array returns one Episode per element, in
\* array order; its entries are one per key other than date and detail, in
\* the source order of the keys, with the key as pollutant and type,
\* niveau and criteres mapped to the kind, the level and the criteria in
\* order; its detail is there exactly when detail is a non-empty string.
C17_EpisodeDecoded ==
    (CallDone({"episode_to_episode"}) /\ call.input.t = "arr"
        /\ \A n \in 1..Len(call.input.v) : ValidEpisode(call.input.v[n])) =>
            /\ ret.tag = "Ok"
            /\ Len(ret.v) = Len(call.input.v)
            /\ \A n \in 1..Len(call.input.v) :
                LET j == call.input.v[n]
                    ms == OtherMembers(j, {"date", "detail"})
                    text == Member(j, "detail")
                IN  /\ ret.v[n].date =
                            Read(clock, n) + TokenOffset(Member(j, "date").v)
                    /\ ret.v[n].detail =
                            IF text.t = "str" /\ text.v # "" THEN Some(text.v)
                            ELSE None
                    /\ Len(ret.v[n].pollutants) = Len(ms)
                    /\ \A k \in 1..Len(ms) :
                        ret.v[n].pollutants[k] =
                            [pollutant |-> ms[k][1],
                             kind |-> KindOf(Member(ms[k][2], "type").v),
                             level |-> LevelOf(Member(ms[k][2], "niveau").v),
                             criteria |-> CriteriaList(ms[k][2])]

C17_Witness ==
    /\ CallDone({"episode_to_episode"})
    /\ clock = Clock(0, 2)
    /\ call.input =
        JArr(<<Obj3("date", JStr("hier"), "detail", JStr(""),
                    "o3", Obj3("type", JStr("constate"), "niveau", JStr("info"),
                               "criteres", StrArr(<<"km", "pop">>))),
               Obj3("o3", Obj2("type", JStr("prevu"), "niveau", JStr("normal")),
                    "date", JStr("jour"),
                    "no2", Obj3("type", JStr("constate"), "niveau", JStr("alerte"),
                                "criteres", JStr("km")))>>)
    /\ ret = Ok(<<[date |-> 0 - 1, detail |-> None,
                   pollutants |->
                     <<[pollutant |-> "o3", kind |-> "Observed", level |-> "Info",
                        criteria |-> <<"Area", "Population">>]>>],
                  [date |-> 1, detail |-> None,
                   pollutants |->
                     <<[pollutant |-> "o3", kind |-> "Forecast",
                        level |-> "Normal", criteria |-> <<>>],
                       [pollutant |-> "no2", kind |-> "Observed",
                        level |-> "Alert", criteria |-> <<>>]>>]>>)

\* C18: in decoder D a criteres array holding a string that is no Criteria
\* token makes the decode return the error UnkownEnumValue carrying that
\* token; a criteres that is absent or not an array gives an empty criteria
\* list and no error.  Stated for documents in which nothing else is wrong.
C18_CriteriaErrors ==
    (CallDone({"episode_to_episode"}) /\ call.input.t = "arr"
        /\ \A n \in 1..Len(call.input.v) :
            LET j == call.input.v[n]
            IN  /\ ValidEpisodeDate(j)
                /\ \A k \in 1..Len(j.v) :
                    j.v[k][1] \notin {"date", "detail"} =>
                        (ValidTypeLevel(j.v[k][2]) /\ StringCriteria(j.v[k][2]))) =>
            LET unknown ==
                    UNION {UNION {UnknownCriteria(call.input.v[n].v[k][2]) :
                                    k \in 1..Len(call.input.v[n].v)} :
                            n \in 1..Len(call.input.v)}
            IN  IF unknown = {} THEN ret.tag = "Ok"
                ELSE /\ ret.tag = "Err"
                     /\ ret.v.t = "UnkownEnumValue"
                     /\ ret.v.token \in unknown

\* what reading the string member key of v and parsing it against tokens
\* must fail with; "none" when it must not fail
StringTokenError(key, v, tokens) ==
    IF ~has_key(v, key)
    THEN [t |-> "MissingJsonKey", key |-> key, json |-> dump(v)]
    ELSE IF Member(v, key).t # "str"
    THEN [t |-> "WrongJsonType", expected |-> "string",
          json |-> dump(Member(v, key))]
    ELSE IF Member(v, key).v \notin tokens
    THEN [t |-> "UnkownEnumValue", token |-> Member(v, key).v]
    ELSE [t |-> "none"]

\* C19: in decoder D type is settled before niveau in every pollutant
\* sub-object: a missing type gives MissingJsonKey with key "type", a type
\* that is not a string WrongJsonType expecting "string", an unrecognized
\* type UnkownEnumValue with that string; niveau is looked at only when
\* type is valid, with the same three outcomes for key "niveau".  Stated
\* for the first sub-object with such a fault the decoder comes to.
C19_TypeBeforeLevel ==
    (CallDone({"episode_to_episode"}) /\ call.input.t = "arr") =>
        \A c \in 1..Len(call.input.v) :
            LET j == call.input.v[c]
                es == entries(j)
            IN  \A k \in 1..Len(es) :
                    ( /\ \A c2 \in 1..(c - 1) : ValidEpisode(call.input.v[c2])
                      /\ ValidEpisodeDate(j)
                      /\ \A k2 \in 1..(k - 1) :
                            es[k2][1] \in {"date", "detail"}
                                \/ ValidEpisodeSub(es[k2][2])
                      /\ es[k][1] \notin {"date", "detail"} ) =>
                        LET kind == StringTokenError("type", es[k][2], TypeTokens)
                            level == StringTokenError("niveau", es[k][2], LevelTokens)
                        IN  /\ kind.t # "none" => ret = Err(kind)
                            /\ (kind.t = "none" /\ level.t # "none") =>
                                    ret = Err(level)

\* type is unrecognized and niveau is missing
C19_Witness ==
    /\ CallDone({"episode_to_episode"})
    /\ call.input =
        JArr(<<Obj2("date", JStr("jour"),
                    "o3", Obj2("type", JStr("Prevu"),
                               "criteres", StrArr(<<"km", "x">>)))>>)
    /\ ret = Err(UnkownEnumValue("Prevu"))

\* the result r is the expected result e: the same outcome, the same value
SameResult(r, e) == r.tag = e.tag /\ r.v = e.v

\* what a string that is no token of the enumeration is answered with
UnknownToken(s) == Err([t |-> "UnkownEnumValue", token |-> s])

\* C20: the three enumeration parsers are exact-match mappings of their
\* input alone: Level maps info, alerte, normal to Info, Alert, Normal; Type
\* maps prevu, constate to Forecast, Observed; Criteria maps km, pop to
\* Area, Population; every other string, a token in another letter case
\* and the empty string included, gives UnkownEnumValue with that string.
C20_EnumParsers ==
    /\ (pc = "done" /\ call.fn = "Level::from_str") =>
        SameResult(ret, CASE call.input = "info" -> Ok("Info")
                          [] call.input = "alerte" -> Ok("Alert")
                          [] call.input = "normal" -> Ok("Normal")
                          [] OTHER -> UnknownToken(call.input))
    /\ (pc = "done" /\ call.fn = "Type::from_str") =>
        SameResult(ret, CASE call.input = "prevu" -> Ok("Forecast")
                          [] call.input = "constate" -> Ok("Observed")
                          [] OTHER -> UnknownToken(call.input))
    /\ (pc = "done" /\ call.fn = "Criteria::from_str") =>
        SameResult(ret, CASE call.input = "km" -> Ok("Area")
                          [] call.input = "pop" -> Ok("Population")
                          [] OTHER -> UnknownToken(call.input))

\* the empty string, on a later day
C20_Witness ==
    /\ pc = "done"
    /\ today = 1
    /\ call = [fn |-> "Level::from_str", input |-> ""]
    /\ ret = Err(UnkownEnumValue(""))

AllDecoders == ArrayDecoders \cup {"index_day_to_index"}

\* the decoder fn applied to json on the day of the call in progress
DecodeOf(fn, json) ==
    CASE fn = "index_to_index" -> index_to_index(json, Clock(clock.base, 0))
      [] fn = "index_day_to_index" -> index_day_to_index(json)
      [] fn = "idxville_to_index" -> idxville_to_index(json, Clock(clock.base, 0))
      [] fn = "episode_to_episode" -> episode_to_episode(json, Clock(clock.base, 0))

\* the parts of the input a decoder iterates over, each as an input of its
\* own: the elements of an array, one by one; for decoder B the members
\* other than date, each with the date of the object
Parts(fn, json) ==
    IF fn = "index_day_to_index"
    THEN LET ms == OtherMembers(json, {"date"})
         IN  [k \in 1..Len(ms) |->
                JObj(<< <<"date", Member(json, "date")>>, ms[k] >>)]
    ELSE IF json.t = "arr" THEN [n \in 1..Len(json.v) |-> JArr(<<json.v[n]>>)]
    ELSE <<>>

\* the parts that are invalid: decoded alone, they do not give a list
InvalidParts(fn, json) ==
    {n \in 1..Len(Parts(fn, json)) : DecodeOf(fn, Parts(fn, json)[n]).tag # "Ok"}

Least(S) == CHOOSE n \in S : \A m \in S : n <= m

\* C21: each decoder stops at the first error in source order: when
\* elements (or keys) of the input are invalid, the result is the error of
\* the earliest of them in iteration order, whatever comes after it, and
\* the records built before it are not returned: an error, never a list.
C21_FirstError ==
    (CallDone(AllDecoders) /\ InvalidParts(call.fn, call.input) # {}
        /\ (call.fn = "index_day_to_index" =>
                DecodeOf(call.fn, JObj(<< <<"date", Member(call.input, "date")>> >>)).tag = "Ok")) =>
        LET first == Least(InvalidParts(call.fn, call.input))
            alone == DecodeOf(call.fn, Parts(call.fn, call.input)[first])
        IN  /\ ret.tag = "Err"
            /\ alone.tag = "Err"
            /\ ret.v = alone.v

\* C22: the errors of the decoders are values: on every JSON input each of
\* the four decoders returns Ok with a list or one of the errors of
\* RParifError, and never ends abnormally.
C22_DecodersReturn ==
    CallDone(AllDecoders) => ret.tag \in {"Ok", "Err"}

\* a value has been decoded and is decoded again
Again == pc = "done" /\ pc' = "again"

Villes(cities) ==
    IF Len(cities) = 0 THEN ""
    ELSE IF Len(cities) = 1 THEN cities[1]
    ELSE cities[1] \o "," \o cities[2]

C25_EpisodeAdd ==
    [][ /\ (pc = "idle" /\ pc' = "built") =>
            /\ alert'.pollutants = <<>>
            /\ alert'.date = call'.input[1]
            /\ alert'.detail = call'.input[2]
        /\ (pc = "built" /\ pc' = "built") =>
            /\ alert'.date = alert.date
            /\ alert'.detail = alert.detail
            /\ Len(alert'.pollutants) = Len(alert.pollutants) + 1
            /\ SubSeq(alert'.pollutants, 1, Len(alert.pollutants)) =
                    alert.pollutants
            /\ alert'.pollutants[Len(alert'.pollutants)] = call'.input
            /\ alert'.pollutants = trace' ]_vars

C25_Witness ==
    /\ pc = "built"
    /\ alert.date = 18261
    /\ alert.detail = Some("text")
    /\ Len(alert.pollutants) = 2
    /\ alert.pollutants[1].pollutant = "so2"
    /\ alert.pollutants[2].pollutant = "o3"
    /\ alert.pollutants = trace

\* C26: iterating an Episode yields its entries in insertion order: the
\* k-th call of next returns the k-th entry, for k up to the number of
\* entries; every later call returns None; the cursor never exceeds the
\* number of entries; an Episode without entries yields nothing.
C26_EpisodeIterator ==
    pc = "iterating" =>
        LET n == Len(iter.episode.pollutants)
        IN  /\ iter.episode.pollutants = trace
            /\ iter.i <= n
            /\ iter.i = IF ncalls <= n THEN ncalls ELSE n
            /\ (ncalls >= 1 /\ ncalls <= n) => ret = Some(trace[ncalls])
            /\ ncalls > n => ret = None

\* the second call of next after the end of two entries
C26_Witness ==
    /\ pc = "iterating"
    /\ Len(trace) = 2
    /\ trace[1].pollutant = "no2"
    /\ ncalls = 4
    /\ iter.i = 2
    /\ ret = None

\* what the endpoint call cl returns on client c when its HTTP exchange
\* ends as out and the date is read from clk
EndpointResult(c, cl, out, clk) ==
    CASE cl.fn = "index" -> index(c, out, clk)
      [] cl.fn = "index_day" -> index_day(c, cl.input, out)
      [] cl.fn = "index_city" -> index_city(c, cl.input, out, clk)
      [] cl.fn = "episode" -> episode(c, out, clk)

\* C27: sequential endpoint calls on one client share no state and no
\* cache: no step changes the client's API key or base URL, the client is
\* always as its constructor made it, and the result of each call is the one
\* a freshly constructed client gives for that call's own HTTP response and
\* date, whatever calls were made before and however they ended.
C27_NoSharedState ==
    [][ /\ client' = client
        /\ (pc = "idle" /\ pc' = "done" /\ call'.fn \in EndpointFns) =>
            \E fresh \in Clients :
                /\ fresh.api_key = client.api_key
                /\ fresh.base_url = client.base_url
                /\ ret' = EndpointResult(fresh, call', outcome', clock').ret
                /\ trace' = EndpointResult(fresh, call', outcome', clock').trace
      ]_vars

\* a call that succeeds after a call that failed
C27_Witness ==
    /\ CallDone({"index_city"})
    /\ ncalls = 2
    /\ last = "Err"
    /\ ret.tag = "Ok"
    /\ ret.v # <<>>

\* the relative-date tokens of the records a decode of valid input returns,
\* in the order of the records
DateTokens ==
    CASE call.fn = "index_to_index" ->
            [n \in 1..Len(call.input.v) |-> Member(call.input.v[n], "date").v]
      [] call.fn = "episode_to_episode" ->
            [n \in 1..Len(call.input.v) |-> Member(call.input.v[n], "date").v]
      [] call.fn = "idxville_to_index" ->
            [k \in 1..Len(CityMembers(call.input.v, 1)) |->
                CityMembers(call.input.v, 1)[k][2]]

ValidInput ==
    /\ call.input.t = "arr"
    /\ \A n \in 1..Len(call.input.v) :
        CASE call.fn = "index_to_index" -> ValidIndexElem(call.input.v[n])
          [] call.fn = "episode_to_episode" -> ValidEpisode(call.input.v[n])
          [] call.fn = "idxville_to_index" -> ValidCity(call.input.v[n])

\* C28: within one decode call of decoder A, C or D all relative dates of
\* the returned records are resolved against one and the same current
\* date, so that records built from hier, jour and demain carry consecutive
\* dates, even when the current date advances during the decode.
C28_OneCurrentDate ==
    (CallDone(ArrayDecoders) /\ ValidInput /\ ret.tag = "Ok") =>
        \E d \in {clock.base, clock.base + 1} :
            \A k \in 1..Len(ret.v) :
                ret.v[k].date = d + TokenOffset(DateTokens[k])

\* what holds instead: each record is resolved against the date read when
\* its element or key is reached
C28_DatePerRecord ==
    (CallDone(ArrayDecoders) /\ ValidInput /\ ret.tag = "Ok") =>
        /\ Len(ret.v) = Len(DateTokens)
        /\ \A k \in 1..Len(ret.v) :
            ret.v[k].date = Read(clock, k) + TokenOffset(DateTokens[k])

UnitDone(fns) == pc = "done" /\ call.fn \in fns

\* C5: both resolver entry points map hier, jour, demain to today-1, today,
\* today+1 (today as read in that call); every other input yields
\* UnexpectedDate, carrying the JSON serialization of the value (a string
\* with its quotes) for the JSON entry point and the raw string for the
\* plain-string entry point.
C5_ResolverTokens ==
    UnitDone({"convert_json_to_date", "convert_string_to_date"}) =>
        LET d == clock.base
            js == call.fn = "convert_json_to_date"
            v == call.input
            Tok(s) == IF js THEN v.t = "str" /\ v.v = s ELSE v = s
        IN  /\ d = today
            /\ Tok("hier") => ret = Ok(d - 1)
            /\ Tok("jour") => ret = Ok(d)
            /\ Tok("demain") => ret = Ok(d + 1)
            /\ ~(Tok("hier") \/ Tok("jour") \/ Tok("demain")) =>
                /\ IsErr(ret, "UnexpectedDate")
                /\ ret.v.value = (IF ~js THEN v
                                  ELSE IF v.t = "str" THEN "\"" \o v.v \o "\""
                                  ELSE dump(v))
            /\ (js /\ v = JInt(35)) => ret = Err(UnexpectedDate("35"))
            /\ (js /\ v = JNull) => ret = Err(UnexpectedDate("null"))

C5_Witness ==
    \/ /\ UnitDone({"convert_json_to_date"})
       /\ call.input = JStr("wrong string")
       /\ ret = Err(UnexpectedDate("\"wrong string\""))
       /\ today = 1
    \/ /\ UnitDone({"convert_string_to_date"})
       /\ call.input = "demain"
       /\ ret = Ok(2)

AccessKey == call.input[1]
AccessJson == call.input[2]
AccessMember == Member(AccessJson, AccessKey)

\* C6: get_number_value / get_string_value return MissingJsonKey(key = k,
\* json = dump of the whole object) when k is absent, WrongJsonType(expected
\* = "number" resp. "string") when k is present with the wrong type, and
\* otherwise Ok with exactly the stored value.
C6_AccessorContract ==
    UnitDone({"get_number_value", "get_string_value"}) =>
        LET num == call.fn = "get_number_value"
        IN  IF ~has_key(AccessJson, AccessKey)
            THEN ret = Err(MissingJsonKey(AccessKey, dump(AccessJson)))
            ELSE IF AccessMember.t # (IF num THEN "num" ELSE "str")
            THEN /\ IsErr(ret, "WrongJsonType")
                 /\ ret.v.expected = (IF num THEN "number" ELSE "string")
            ELSE /\ ret.tag = "Ok"
                 /\ IF num THEN AccessMember = JInt(ret.v)
                    ELSE AccessMember = JStr(ret.v)

\* the fields an error value holds besides its variant
Payload(e) == {e[f] : f \in DOMAIN e \ {"t"}}

\* C7 as stated: every failing call of an accessor with key k returns an
\* error that carries k.
C7_ErrorCarriesKey ==
    (UnitDone({"get_number_value", "get_string_value"}) /\ ret.tag = "Err") =>
        AccessKey \in Payload(ret.v)

\* C7 amended: MissingJsonKey carries the key and the dump of the whole JSON
\* examined; WrongJsonType carries the expected type name and the dump of
\* the offending member only, and has no field for the key.
C7_ErrorPayload ==
    (UnitDone({"get_number_value", "get_string_value"}) /\ ret.tag = "Err") =>
        LET e == ret.v
        IN  \/ /\ ~has_key(AccessJson, AccessKey)
               /\ DOMAIN e = {"t", "key", "json"}
               /\ e.t = "MissingJsonKey"
               /\ e.key = AccessKey
               /\ e.json = dump(AccessJson)
            \/ /\ has_key(AccessJson, AccessKey)
               /\ DOMAIN e = {"t", "expected", "json"}
               /\ e.t = "WrongJsonType"
               /\ e.expected =
                    (IF call.fn = "get_number_value" THEN "number" ELSE "string")
               /\ e.json = dump(AccessMember)

C7_Witness ==
    /\ UnitDone({"get_number_value"})
    /\ call.input = <<"indice", JObj(<< <<"date", JStr("hier")>>,
                                        <<"indice", JStr("a")>> >>)>>
    /\ ret = Err(WrongJsonType("number", "\"a\""))

\* C8: get_number_value returns Ok with a non-negative integer for every
\* numeric member (negative, fractional, above u32::MAX included) and never
\* aborts.
C8_NumberNeverAborts ==
    (UnitDone({"get_number_value"}) /\ has_key(AccessJson, AccessKey)
        /\ is_number(AccessMember)) =>
            /\ ret.tag = "Ok"
            /\ ret.v >= 0

\* the two entry points agree: both Ok with the same date, or both
\* UnexpectedDate, the JSON one carrying the serialized string
Agree(json, plain) ==
    \/ /\ json.tag = "Ok"
       /\ plain.tag = "Ok"
       /\ json.v = plain.v
    \/ /\ IsErr(json, "UnexpectedDate")
       /\ IsErr(plain, "UnexpectedDate")
       /\ json.v.value = dump(JStr(plain.v.value))
       /\ json.v.value = "\"" \o plain.v.value \o "\""

\* C29: the two resolver entry points agree on every string: on the same
\* current date, convert_json_to_date on the JSON string s and
\* convert_string_to_date on s both succeed with the same date or both fail
\* with UnexpectedDate, the payloads being s JSON-quoted and s itself.
C29_ResolversAgree ==
    /\ UnitDone({"convert_string_to_date"}) =>
        /\ Agree(convert_json_to_date(JStr(call.input), clock.base), ret)
        /\ ret.tag = "Err" => ret.v.value = call.input
    /\ (UnitDone({"convert_json_to_date"}) /\ call.input.t = "str") =>
        /\ Agree(ret, convert_string_to_date(call.input.v, clock.base))
        /\ ret.tag = "Err" => ret.v.value = dump(call.input)

\* a token in the wrong case, the day after the first
C29_Witness ==
    /\ UnitDone({"convert_string_to_date"})
    /\ call.input = "Hier"
    /\ today = 1
    /\ ret = Err(UnexpectedDate("Hier"))
    /\ convert_json_to_date(JStr("Hier"), today) =
            Err(UnexpectedDate("\"Hier\""))

\* the date of an element is one of the three tokens
ValidDate(e) == Member(e, "date").t = "str" /\ Member(e, "date").v \in RelativeDays

\* the elements the decode reaches with all elements before them valid and
\* a date that is not a token
DateFaults ==
    IF call.input.t # "arr" THEN {}
    ELSE {n \in 1..Len(call.input.v) :
            /\ ~ValidDate(call.input.v[n])
            /\ \A m \in 1..(n - 1) :
                IF call.fn = "index_to_index"
                THEN ValidIndexElem(call.input.v[m])
                ELSE ValidEpisode(call.input.v[m])}

\* C30: decoders A and D resolve the date of an element before they read
\* any other field: an element without date key, or that is not an object,
\* fails the decode with UnexpectedDate carrying the serialized null, not
\* MissingJsonKey; a wrong date comes before a missing or non-numeric
\* indice (A) and before a wrong pollutant sub-object (D) of the element.
C30_DateFirst ==
    CallDone({"index_to_index", "episode_to_episode"}) =>
        \A n \in DateFaults :
            LET e == call.input.v[n]
            IN  /\ ret = Err(UnexpectedDate(dump(Member(e, "date"))))
                /\ (e.t # "obj" \/ ~has_key(e, "date")) =>
                        ret = Err(UnexpectedDate("null"))

\* after a valid element, an element with a wrong date and a wrong indice
C30_Witness ==
    /\ CallDone({"index_to_index"})
    /\ call.input =
        JArr(<<Obj2("date", JStr("jour"), "indice", JInt(0)),
               Obj2("indice", JStr("s"), "date", JStr("x"))>>)
    /\ DateFaults = {2}
    /\ ret = Err(UnexpectedDate("\"x\""))

=============================================================================
